---------------------------- MODULE Spec2Model ----------------------------
(***************************************************************************)
(* A model of FirewallD, the D-Bus facade of the firewall daemon           *)
(* (src/src/firewall/server/firewalld.py).                                 *)
(*                                                                         *)
(* The daemon runs one GLib main loop: every D-Bus method call and every   *)
(* timer callback runs to completion before the next one starts, so each   *)
(* handler is one atomic action.  A handler is written as an operator from *)
(* the program state (a record, Cur) and the call's arguments to an        *)
(* outcome: the state it leaves, the value it returns, the error it raises *)
(* and the signals it emits.  An exception leaves the state as it was when *)
(* it was raised.                                                          *)
(*                                                                         *)
(* Python values are encoded so that TLC can compare them: a dictionary    *)
(* key that is a str is <<"str">> followed by its words (a name is one     *)
(* word), a key that is a tuple (a, b) is <<"tuple", a, b>>; a rich rule   *)
(* text is its sequence of words, an empty word standing for an additional *)
(* blank.                                                                  *)
(***************************************************************************)
EXTENDS Integers, Sequences, FiniteSets, TLC

VARIABLES
    defaultZone,   \* fw.get_default_zone()
    settings,      \* the runtime zone settings held by fw.zone
    permanent,     \* the zone settings of the persistent store (self.config)
    timeouts,      \* self._timeouts, as a set of [zone, key, tag]
    sources,       \* the GLib timeout sources that are still attached
    nextTag,       \* the id GLib gives the next source
    lockdown,      \* fw.policies.query_lockdown()
    whitelist,     \* fw.policies.lockdown_whitelist
    panic,         \* fw.query_panic_mode()
    passthroughs,  \* fw.direct.get_all_passthroughs(), in insertion order
    chains,        \* fw.direct.get_all_chains()
    rules,         \* fw.direct.get_all_rules()
    store,         \* the rest of the persistent store (self.config)
    storeOps,      \* the calls runtimeToPermanent last made on self.config
    scope,         \* the parts of the interface the clients of this run use
    promises,      \* history: the timed adds still owed their full duration
    last           \* the last call dispatched and its outcome

vars == <<defaultZone, settings, permanent, timeouts, sources, nextTag,
          lockdown, whitelist, panic, passthroughs, chains, rules, store,
          storeOps, scope, promises, last>>

(***************************************************************************)
(* Bounds of the model.                                                    *)
(***************************************************************************)
MaxTimeout == 2
MaxTimers == 2

(***************************************************************************)
(* The values the clients send.                                            *)
(***************************************************************************)
Zones == {"public", "work"}
ZoneArgs == Zones \cup {""}
TimeoutArgs == 0 .. MaxTimeout
\* A timeout is a signed integer on the bus: the clients of masquerading
\* also send a negative one.
SignedTimeoutArgs == TimeoutArgs \cup {-1}
Services == {"gre"}
Protocols == {"gre"}
IcmpTypes == {"echo-request"}
Ports == {<<"80", "tcp">>}
ForwardPorts == {<<"80", "tcp", "8080", "">>}
Interfaces == {"eth0"}
SourceAddrs == {"10.0.0.0/8"}
\* Two texts of one rich rule: the second has an additional blank.
RichRuleTexts == {<<"rule", "service", "name=ftp", "accept">>,
                  <<"rule", "", "service", "name=ftp", "accept">>}
PassthroughArgs == {<<"ipv4", <<"-N", "A">> >>,
                    <<"ipv4", <<"-A", "A", "-j", "ACCEPT">> >>}
InterfaceNames == {"org.fedoraproject.FirewallD1",
                   "org.fedoraproject.FirewallD1.zone"}
PropertyNames == {"version", "interface_version", "state", "IPv4", "IPv6",
                  "IPv6_rpfilter", "BRIDGE", "panic"}
PropertyValues == {"RUNNING"}
ChainArgs == {<<"ipv4", "filter", "A">>}
RuleArgs == {<<"ipv4", "filter", "A", 0, <<"-j", "ACCEPT">> >>,
             <<"ipv4", "filter", "A", 1, <<"-j", "DROP">> >>,
             <<"ipv4", "filter", "INPUT", 0, <<"-j", "A">> >>}

\* sender=None: a handler called from inside the daemon, not over the bus.
NoSender == "None"
\* ":1.1" and ":1.2" are authorised for every action, ":1.3" for info only.
Senders == {":1.1", ":1.2", ":1.3"}

context_of_sender(sender) ==
    IF sender = ":1.1" THEN "system_u:system_r:NetworkManager_t:s0"
    ELSE "unconfined_u:unconfined_r:unconfined_t:s0"
uid_of_sender(sender) == IF sender = ":1.1" THEN 0 ELSE 1000
user_of_uid(uid) == IF uid = 0 THEN "root" ELSE "alice"
command_of_sender(sender) ==
    IF sender = ":1.1" THEN "/usr/bin/python /usr/bin/firewall-config"
    ELSE "/usr/bin/python /home/alice/tool"

WhitelistKinds == <<"context", "uid", "user", "command">>
\* The entries the clients add to the whitelist: the identity of ":1.1".
WhitelistArgs ==
    [context |-> {context_of_sender(":1.1")}, uid |-> {uid_of_sender(":1.1")},
     user |-> {user_of_uid(uid_of_sender(":1.1"))},
     command |-> {command_of_sender(":1.1")}]

ElementKinds == {"service", "port", "protocol", "icmpblock", "masquerade",
                 "forwardport", "richrule"}
BindingKinds == {"interface", "source"}
\* The clients of one run use one part of the interface (and always
\* setDefaultZone, reload and completeReload).
Profiles ==
    {{k} : k \in ElementKinds}
    \cup {BindingKinds, {"policies", "direct"}, {"panic"}, {"properties"},
          {"chains"}, {"config", "interface"}}
\* The whitelist of the configuration the daemon starts with.
ConfiguredWhitelist ==
    [context |-> WhitelistArgs.context, uid |-> WhitelistArgs.uid,
     user |-> {}, command |-> WhitelistArgs.command]

(***************************************************************************)
(* Outcomes of a handler.                                                  *)
(***************************************************************************)
Cur ==
    [defaultZone |-> defaultZone, settings |-> settings,
     permanent |-> permanent, timeouts |-> timeouts, sources |-> sources,
     nextTag |-> nextTag, lockdown |-> lockdown, whitelist |-> whitelist,
     panic |-> panic, passthroughs |-> passthroughs, chains |-> chains,
     rules |-> rules, store |-> store, storeOps |-> storeOps]

NoValue == "None"
\* The step of a call that the environment makes fail: none.
NoFault == <<"None", "">>
\* The text of the exception a failing call on the store raises.
StoreError == "IOError"
Ok(s, ret, signals, checks) ==
    [s |-> s, ret |-> ret, err |-> "", signals |-> signals, checks |-> checks]
Fail(s, err, checks) ==
    [s |-> s, ret |-> NoValue, err |-> err, signals |-> <<>>, checks |-> checks]

Signal(name, args) == [name |-> name, args |-> args]

\* A str is its sequence of words (a name is one word), a tuple its fields.
PyStr(words) == <<"str">> \o words
PyTuple(fields) == <<"tuple">> \o fields

(***************************************************************************)
(* The runtime core behind the facade (self.fw): the zone settings.        *)
(***************************************************************************)
Entry(zone, kind, id) == [zone |-> zone, kind |-> kind, id |-> id]

\* Rich_Rule(rule_str=...): the parsed rule, blanks between words dropped.
Rich_Rule(rule) == SelectSeq(rule, LAMBDA w : w # "")

check_zone(s, zone) == IF zone = "" THEN s.defaultZone ELSE zone

CoreOk(s, zone) == [ok |-> TRUE, err |-> "", s |-> s, zone |-> zone]
CoreFail(s, err) == [ok |-> FALSE, err |-> err, s |-> s, zone |-> NoValue]

\* fw.zone.add_<element>(zone, ..., timeout, sender): validate, then apply.
zone_add(s, zone, kind, id) ==
    LET _zone == check_zone(s, zone) IN
    IF _zone \notin Zones THEN CoreFail(s, "INVALID_ZONE")
    ELSE IF Entry(_zone, kind, id) \in s.settings
    THEN CoreFail(s, "ALREADY_ENABLED")
    ELSE CoreOk([s EXCEPT !.settings = @ \cup {Entry(_zone, kind, id)}], _zone)

\* fw.zone.remove_<element>(zone, ...)
zone_remove(s, zone, kind, id) ==
    LET _zone == check_zone(s, zone) IN
    IF _zone \notin Zones THEN CoreFail(s, "INVALID_ZONE")
    ELSE IF Entry(_zone, kind, id) \notin s.settings
    THEN CoreFail(s, "NOT_ENABLED")
    ELSE CoreOk([s EXCEPT !.settings = @ \ {Entry(_zone, kind, id)}], _zone)

\* fw.zone.query_<element>(zone, ...): false for an unknown zone.
zone_query(s, zone, kind, id) == Entry(check_zone(s, zone), kind, id) \in s.settings

\* fw.zone.get_zone_of_interface / get_zone_of_source
zone_of(s, kind, id) ==
    LET bound == {z \in Zones : Entry(z, kind, id) \in s.settings} IN
    IF bound = {} THEN NoValue ELSE CHOOSE z \in bound : TRUE

\* fw.zone.add_interface / add_source
binding_add(s, zone, kind, id) ==
    LET _zone == check_zone(s, zone) IN
    IF _zone \notin Zones THEN CoreFail(s, "INVALID_ZONE")
    ELSE IF Entry(_zone, kind, id) \in s.settings
    THEN CoreFail(s, "ZONE_ALREADY_SET")
    ELSE IF zone_of(s, kind, id) # NoValue THEN CoreFail(s, "ZONE_CONFLICT")
    ELSE CoreOk([s EXCEPT !.settings = @ \cup {Entry(_zone, kind, id)}], _zone)

\* fw.zone.remove_interface / remove_source: an empty zone is the zone the
\* interface or source belongs to.
binding_remove(s, zone, kind, id) ==
    LET zoi == zone_of(s, kind, id) IN
    IF zoi = NoValue
    THEN CoreFail(s, IF kind = "interface" THEN "UNKNOWN_INTERFACE"
                     ELSE "UNKNOWN_SOURCE")
    ELSE LET _zone == IF zone = "" THEN zoi ELSE zone IN
         IF _zone \notin Zones THEN CoreFail(s, "INVALID_ZONE")
         ELSE IF zoi # _zone THEN CoreFail(s, "ZONE_CONFLICT")
         ELSE CoreOk([s EXCEPT !.settings = @ \ {Entry(_zone, kind, id)}],
                     _zone)

\* fw.zone.change_zone_of_interface / change_zone_of_source: remove, then add.
binding_change(s, zone, kind, id) ==
    LET _zone == check_zone(s, zone)
        _old == zone_of(s, kind, id) IN
    IF _zone \notin Zones THEN CoreFail(s, "INVALID_ZONE")
    ELSE IF _old = _zone THEN CoreFail(s, "ZONE_ALREADY_SET")
    ELSE CoreOk([s EXCEPT !.settings =
                    (@ \ {Entry(z, kind, id) : z \in Zones})
                    \cup {Entry(_zone, kind, id)}], _zone)

\* fw.set_default_zone(zone)
set_default_zone(s, zone) ==
    IF zone \notin Zones THEN CoreFail(s, "INVALID_ZONE")
    ELSE IF zone = s.defaultZone THEN CoreFail(s, "ZONE_ALREADY_SET")
    ELSE CoreOk([s EXCEPT !.defaultZone = zone], zone)

\* fw.reload() / fw.reload(True): the runtime settings are rebuilt from the
\* persistent store and panic mode ends.
fw_reload(s) == [s EXCEPT !.settings = s.permanent, !.panic = FALSE]

\* fw.policies.access_check(key, value)
access_check(s, key, value) == value \in s.whitelist[key]

(***************************************************************************)
(* GLib's timeout sources.                                                 *)
(***************************************************************************)
\* GLib.timeout_add_seconds(interval, function, *args): attaches a source
\* and returns its id.
timeout_add_seconds(s, interval, cb, args) ==
    [s |-> [s EXCEPT !.sources = @ \cup {[tag |-> s.nextTag, cb |-> cb,
                                          args |-> args,
                                          remaining |-> interval]},
                     !.nextTag = @ + 1],
     tag |-> s.nextTag]

\* GLib.source_remove(tag)
source_remove(s, tag) ==
    [s EXCEPT !.sources = {x \in @ : x.tag # tag}]

(***************************************************************************)
(* FirewallD: lockdown check and timeout table.                            *)
(***************************************************************************)
\* One accessCheck call, as the handler's outcome records it: the sender it
\* was given, the whitelist kinds it consulted, in order, and its verdict.
Allowed(sender, consulted) ==
    [ok |-> TRUE,
     checks |-> <<[sender |-> sender, consulted |-> consulted, ok |-> TRUE]>>]
Denied(sender, consulted) ==
    [ok |-> FALSE,
     checks |-> <<[sender |-> sender, consulted |-> consulted, ok |-> FALSE]>>]

\* accessCheck as it would be if a call without a sender were denied.
accessCheck_deny_unidentified(s, sender) ==
    IF ~s.lockdown THEN Allowed(sender, <<>>)
    ELSE IF sender = NoSender THEN Denied(sender, <<>>)
    ELSE LET context == context_of_sender(sender)
             uid == uid_of_sender(sender)
             user == user_of_uid(uid)
             command == command_of_sender(sender) IN
         IF access_check(s, "context", context)
         THEN Allowed(sender, <<"context">>)
         ELSE IF access_check(s, "uid", uid)
         THEN Allowed(sender, <<"context", "uid">>)
         ELSE IF access_check(s, "user", user)
         THEN Allowed(sender, <<"context", "uid", "user">>)
         ELSE IF access_check(s, "command", command)
         THEN Allowed(sender, <<"context", "uid", "user", "command">>)
         ELSE Denied(sender, <<"context", "uid", "user", "command">>)

\* accessCheck as it would be with the uid consulted before the context.
accessCheck_uid_first(s, sender) ==
    IF ~s.lockdown THEN Allowed(sender, <<>>)
    ELSE IF sender = NoSender THEN Allowed(sender, <<>>)
    ELSE LET context == context_of_sender(sender)
             uid == uid_of_sender(sender)
             user == user_of_uid(uid)
             command == command_of_sender(sender) IN
         IF access_check(s, "uid", uid)
         THEN Allowed(sender, <<"uid">>)
         ELSE IF access_check(s, "context", context)
         THEN Allowed(sender, <<"uid", "context">>)
         ELSE IF access_check(s, "user", user)
         THEN Allowed(sender, <<"uid", "context", "user">>)
         ELSE IF access_check(s, "command", command)
         THEN Allowed(sender, <<"uid", "context", "user", "command">>)
         ELSE Denied(sender, <<"uid", "context", "user", "command">>)

\* accessCheck(sender)
accessCheck(s, sender) ==
    IF ~s.lockdown THEN Allowed(sender, <<>>)
    ELSE IF sender = NoSender THEN Allowed(sender, <<>>)
    ELSE LET context == context_of_sender(sender)
             uid == uid_of_sender(sender)
             user == user_of_uid(uid)
             command == command_of_sender(sender) IN
         IF access_check(s, "context", context)
         THEN Allowed(sender, <<"context">>)
         ELSE IF access_check(s, "uid", uid)
         THEN Allowed(sender, <<"context", "uid">>)
         ELSE IF access_check(s, "user", user)
         THEN Allowed(sender, <<"context", "uid", "user">>)
         ELSE IF access_check(s, "command", command)
         THEN Allowed(sender, <<"context", "uid", "user", "command">>)
         ELSE Denied(sender, <<"context", "uid", "user", "command">>)

\* Whether self._timeouts[zone] holds x (an inner dictionary that is empty
\* is not told from one that is absent by any handler).
HasTimeout(s, zone, x) == \E e \in s.timeouts : e.zone = zone /\ e.key = x
TimeoutTag(s, zone, x) ==
    (CHOOSE e \in s.timeouts : e.zone = zone /\ e.key = x).tag
DelTimeout(s, zone, x) ==
    [s EXCEPT !.timeouts = {e \in @ : ~(e.zone = zone /\ e.key = x)}]

\* addTimeout(zone, x, tag)
addTimeout(s, zone, x, tag) ==
    [s EXCEPT !.timeouts = {e \in @ : ~(e.zone = zone /\ e.key = x)}
                           \cup {[zone |-> zone, key |-> x, tag |-> tag]}]

\* removeTimeout(zone, x)
removeTimeout(s, zone, x) ==
    IF HasTimeout(s, zone, x)
    THEN DelTimeout(source_remove(s, TimeoutTag(s, zone, x)), zone, x)
    ELSE s

\* cleanup_timeouts(): no handler calls it.
cleanup_timeouts(s) ==
    [s EXCEPT !.sources = {x \in @ : \A e \in s.timeouts : e.tag # x.tag},
              !.timeouts = {}]

(***************************************************************************)
(* FirewallD: services.                                                    *)
(***************************************************************************)
\* disableTimedService as it would be with the core called before the entry
\* of the timer table is deleted.
disableTimedService_update_first(s, zone, service) ==
    IF ~HasTimeout(s, zone, PyStr(<<service>>)) THEN Fail(s, "KeyError", <<>>)
    ELSE
    LET r == zone_remove(s, zone, "service", <<service>>) IN
    IF ~r.ok THEN Fail(r.s, r.err, <<>>)
    ELSE Ok(DelTimeout(r.s, zone, PyStr(<<service>>)), NoValue,
            <<Signal("ServiceRemoved", <<zone, service>>)>>, <<>>)

disableTimedService(s, zone, service) ==
    IF ~HasTimeout(s, zone, PyStr(<<service>>)) THEN Fail(s, "KeyError", <<>>)
    ELSE
    LET s1 == DelTimeout(s, zone, PyStr(<<service>>))
        r == zone_remove(s1, zone, "service", <<service>>) IN
    IF ~r.ok THEN Fail(r.s, r.err, <<>>)
    ELSE Ok(r.s, NoValue, <<Signal("ServiceRemoved", <<zone, service>>)>>,
            <<>>)

\* addService as it would be with the timer recorded under the zone given.
addService_input_zone(s, zone, service, timeout, sender) ==
    LET ac == accessCheck(s, sender) IN
    IF ~ac.ok THEN Fail(s, "ACCESS_DENIED", ac.checks)
    ELSE
    LET a == zone_add(s, zone, "service", <<service>>) IN
    IF ~a.ok THEN Fail(a.s, a.err, ac.checks)
    ELSE
    LET _zone == a.zone
        t == timeout_add_seconds(a.s, timeout, "disableTimedService",
                                 <<_zone, service>>)
        s1 == IF timeout > 0
              THEN addTimeout(t.s, zone, PyStr(<<service>>), t.tag)
              ELSE a.s IN
    Ok(s1, _zone, <<Signal("ServiceAdded", <<_zone, service, timeout>>)>>,
       ac.checks)

addService(s, zone, service, timeout, sender) ==
    LET ac == accessCheck(s, sender) IN
    IF ~ac.ok THEN Fail(s, "ACCESS_DENIED", ac.checks)
    ELSE
    LET a == zone_add(s, zone, "service", <<service>>) IN
    IF ~a.ok THEN Fail(a.s, a.err, ac.checks)
    ELSE
    LET _zone == a.zone
        t == timeout_add_seconds(a.s, timeout, "disableTimedService",
                                 <<_zone, service>>)
        s1 == IF timeout > 0
              THEN addTimeout(t.s, _zone, PyStr(<<service>>), t.tag)
              ELSE a.s IN
    Ok(s1, _zone, <<Signal("ServiceAdded", <<_zone, service, timeout>>)>>,
       ac.checks)

\* removeService as it would be with the zone given in timer and signal.
removeService_input_zone(s, zone, service, sender) ==
    LET ac == accessCheck(s, sender) IN
    IF ~ac.ok THEN Fail(s, "ACCESS_DENIED", ac.checks)
    ELSE
    LET r == zone_remove(s, zone, "service", <<service>>) IN
    IF ~r.ok THEN Fail(r.s, r.err, ac.checks)
    ELSE
    LET _zone == r.zone
        s1 == removeTimeout(r.s, zone, PyStr(<<service>>)) IN
    Ok(s1, _zone, <<Signal("ServiceRemoved", <<zone, service>>)>>, ac.checks)

removeService(s, zone, service, sender) ==
    LET ac == accessCheck(s, sender) IN
    IF ~ac.ok THEN Fail(s, "ACCESS_DENIED", ac.checks)
    ELSE
    LET r == zone_remove(s, zone, "service", <<service>>) IN
    IF ~r.ok THEN Fail(r.s, r.err, ac.checks)
    ELSE
    LET _zone == r.zone
        s1 == removeTimeout(r.s, _zone, PyStr(<<service>>)) IN
    Ok(s1, _zone, <<Signal("ServiceRemoved", <<_zone, service>>)>>, ac.checks)

(***************************************************************************)
(* FirewallD: rich rules.                                                  *)
(***************************************************************************)
disableTimedRichRule(s, zone, rule) ==
    IF ~HasTimeout(s, zone, PyStr(rule)) THEN Fail(s, "KeyError", <<>>)
    ELSE
    LET s1 == DelTimeout(s, zone, PyStr(rule))
        obj == Rich_Rule(rule)
        r == zone_remove(s1, zone, "richrule", obj) IN
    IF ~r.ok THEN Fail(r.s, r.err, <<>>)
    ELSE Ok(r.s, NoValue, <<Signal("RichRuleRemoved", <<zone, rule>>)>>, <<>>)

addRichRule(s, zone, rule, timeout, sender) ==
    LET obj == Rich_Rule(rule)
        a == zone_add(s, zone, "richrule", obj) IN
    IF ~a.ok THEN Fail(a.s, a.err, <<>>)
    ELSE
    LET _zone == a.zone
        t == timeout_add_seconds(a.s, timeout, "disableTimedRichRule",
                                 <<_zone>> \o rule)
        s1 == IF timeout > 0
              THEN addTimeout(t.s, _zone, PyStr(rule), t.tag)
              ELSE a.s IN
    Ok(s1, _zone, <<Signal("RichRuleAdded", <<_zone, rule, timeout>>)>>, <<>>)

removeRichRule(s, zone, rule, sender) ==
    LET obj == Rich_Rule(rule)
        r == zone_remove(s, zone, "richrule", obj) IN
    IF ~r.ok THEN Fail(r.s, r.err, <<>>)
    ELSE
    LET _zone == r.zone
        s1 == removeTimeout(r.s, _zone, PyStr(rule)) IN
    Ok(s1, _zone, <<Signal("RichRuleRemoved", <<_zone, rule>>)>>, <<>>)

(***************************************************************************)
(* FirewallD: ports.                                                       *)
(***************************************************************************)
disableTimedPort(s, zone, port, protocol) ==
    IF ~HasTimeout(s, zone, PyTuple(<<port, protocol>>)) THEN Fail(s, "KeyError", <<>>)
    ELSE
    LET s1 == DelTimeout(s, zone, PyTuple(<<port, protocol>>))
        r == zone_remove(s1, zone, "port", <<port, protocol>>) IN
    IF ~r.ok THEN Fail(r.s, r.err, <<>>)
    ELSE Ok(r.s, NoValue, <<Signal("PortRemoved", <<zone, port, protocol>>)>>, <<>>)

\* addPort as it would be with the lockdown check after the core call.
addPort_check_late(s, zone, port, protocol, timeout, sender) ==
    LET a == zone_add(s, zone, "port", <<port, protocol>>)
        ac == accessCheck(a.s, sender) IN
    IF ~a.ok THEN Fail(a.s, a.err, <<>>)
    ELSE IF ~ac.ok THEN Fail(a.s, "ACCESS_DENIED", ac.checks)
    ELSE
    LET _zone == a.zone
        t == timeout_add_seconds(a.s, timeout, "disableTimedPort",
                                 <<_zone, port, protocol>>)
        s1 == IF timeout > 0
              THEN addTimeout(t.s, _zone, PyTuple(<<port, protocol>>), t.tag)
              ELSE a.s IN
    Ok(s1, _zone, <<Signal("PortAdded", <<_zone, port, protocol, timeout>>)>>,
       ac.checks)

addPort(s, zone, port, protocol, timeout, sender) ==
    LET ac == accessCheck(s, sender) IN
    IF ~ac.ok THEN Fail(s, "ACCESS_DENIED", ac.checks)
    ELSE
    LET a == zone_add(s, zone, "port", <<port, protocol>>) IN
    IF ~a.ok THEN Fail(a.s, a.err, ac.checks)
    ELSE
    LET _zone == a.zone
        t == timeout_add_seconds(a.s, timeout, "disableTimedPort",
                                 <<_zone, port, protocol>>)
        s1 == IF timeout > 0
              THEN addTimeout(t.s, _zone, PyTuple(<<port, protocol>>), t.tag)
              ELSE a.s IN
    Ok(s1, _zone, <<Signal("PortAdded", <<_zone, port, protocol, timeout>>)>>, ac.checks)

removePort(s, zone, port, protocol, sender) ==
    LET ac == accessCheck(s, sender) IN
    IF ~ac.ok THEN Fail(s, "ACCESS_DENIED", ac.checks)
    ELSE
    LET r == zone_remove(s, zone, "port", <<port, protocol>>) IN
    IF ~r.ok THEN Fail(r.s, r.err, ac.checks)
    ELSE
    LET _zone == r.zone
        s1 == removeTimeout(r.s, _zone, PyTuple(<<port, protocol>>)) IN
    Ok(s1, _zone, <<Signal("PortRemoved", <<_zone, port, protocol>>)>>, ac.checks)

(***************************************************************************)
(* FirewallD: protocols.                                                   *)
(***************************************************************************)
disableTimedProtocol(s, zone, protocol) ==
    IF ~HasTimeout(s, zone, PyStr(<<protocol>>)) THEN Fail(s, "KeyError", <<>>)
    ELSE
    LET s1 == DelTimeout(s, zone, PyStr(<<protocol>>))
        r == zone_remove(s1, zone, "protocol", <<protocol>>) IN
    IF ~r.ok THEN Fail(r.s, r.err, <<>>)
    ELSE Ok(r.s, NoValue, <<Signal("ProtocolRemoved", <<zone, protocol>>)>>, <<>>)

addProtocol(s, zone, protocol, timeout, sender) ==
    LET ac == accessCheck(s, sender) IN
    IF ~ac.ok THEN Fail(s, "ACCESS_DENIED", ac.checks)
    ELSE
    LET a == zone_add(s, zone, "protocol", <<protocol>>) IN
    IF ~a.ok THEN Fail(a.s, a.err, ac.checks)
    ELSE
    LET _zone == a.zone
        t == timeout_add_seconds(a.s, timeout, "disableTimedProtocol",
                                 <<_zone, protocol>>)
        s1 == IF timeout > 0
              THEN addTimeout(t.s, _zone, PyStr(<<protocol>>), t.tag)
              ELSE a.s IN
    Ok(s1, _zone, <<Signal("ProtocolAdded", <<_zone, protocol, timeout>>)>>, ac.checks)

removeProtocol(s, zone, protocol, sender) ==
    LET ac == accessCheck(s, sender) IN
    IF ~ac.ok THEN Fail(s, "ACCESS_DENIED", ac.checks)
    ELSE
    LET r == zone_remove(s, zone, "protocol", <<protocol>>) IN
    IF ~r.ok THEN Fail(r.s, r.err, ac.checks)
    ELSE
    LET _zone == r.zone
        s1 == removeTimeout(r.s, _zone, PyStr(<<protocol>>)) IN
    Ok(s1, _zone, <<Signal("ProtocolRemoved", <<_zone, protocol>>)>>, ac.checks)

(***************************************************************************)
(* FirewallD: masquerade.                                                  *)
(***************************************************************************)
disableTimedMasquerade(s, zone) ==
    IF ~HasTimeout(s, zone, PyStr(<<"masquerade">>)) THEN Fail(s, "KeyError", <<>>)
    ELSE
    LET s1 == DelTimeout(s, zone, PyStr(<<"masquerade">>))
        r == zone_remove(s1, zone, "masquerade", <<>>) IN
    IF ~r.ok THEN Fail(r.s, r.err, <<>>)
    ELSE Ok(r.s, NoValue, <<Signal("MasqueradeRemoved", <<zone>>)>>, <<>>)

addMasquerade_cb_input_zone(s, zone, timeout, sender) ==
    LET ac == accessCheck(s, sender) IN
    IF ~ac.ok THEN Fail(s, "ACCESS_DENIED", ac.checks)
    ELSE
    LET a == zone_add(s, zone, "masquerade", <<>>) IN
    IF ~a.ok THEN Fail(a.s, a.err, ac.checks)
    ELSE
    LET _zone == a.zone
        t == timeout_add_seconds(a.s, timeout, "disableTimedMasquerade",
                                 <<zone>>)
        s1 == IF timeout > 0
              THEN addTimeout(t.s, _zone, PyStr(<<"masquerade">>), t.tag)
              ELSE a.s IN
    Ok(s1, _zone, <<Signal("MasqueradeAdded", <<_zone, timeout>>)>>, ac.checks)

addMasquerade(s, zone, timeout, sender) ==
    LET ac == accessCheck(s, sender) IN
    IF ~ac.ok THEN Fail(s, "ACCESS_DENIED", ac.checks)
    ELSE
    LET a == zone_add(s, zone, "masquerade", <<>>) IN
    IF ~a.ok THEN Fail(a.s, a.err, ac.checks)
    ELSE
    LET _zone == a.zone
        t == timeout_add_seconds(a.s, timeout, "disableTimedMasquerade",
                                 <<_zone>>)
        s1 == IF timeout > 0
              THEN addTimeout(t.s, _zone, PyStr(<<"masquerade">>), t.tag)
              ELSE a.s IN
    Ok(s1, _zone, <<Signal("MasqueradeAdded", <<_zone, timeout>>)>>, ac.checks)

removeMasquerade(s, zone, sender) ==
    LET ac == accessCheck(s, sender) IN
    IF ~ac.ok THEN Fail(s, "ACCESS_DENIED", ac.checks)
    ELSE
    LET r == zone_remove(s, zone, "masquerade", <<>>) IN
    IF ~r.ok THEN Fail(r.s, r.err, ac.checks)
    ELSE
    LET _zone == r.zone
        s1 == removeTimeout(r.s, _zone, PyStr(<<"masquerade">>)) IN
    Ok(s1, _zone, <<Signal("MasqueradeRemoved", <<_zone>>)>>, ac.checks)

(***************************************************************************)
(* FirewallD: forward ports.                                               *)
(***************************************************************************)
disable_forward_port(s, zone, port, protocol, toport, toaddr) ==
    IF ~HasTimeout(s, zone, PyTuple(<<port, protocol, toport, toaddr>>)) THEN Fail(s, "KeyError", <<>>)
    ELSE
    LET s1 == DelTimeout(s, zone, PyTuple(<<port, protocol, toport, toaddr>>))
        r == zone_remove(s1, zone, "forwardport", <<port, protocol, toport, toaddr>>) IN
    IF ~r.ok THEN Fail(r.s, r.err, <<>>)
    ELSE Ok(r.s, NoValue, <<Signal("ForwardPortRemoved", <<zone, port, protocol, toport, toaddr>>)>>, <<>>)

addForwardPort(s, zone, port, protocol, toport, toaddr, timeout, sender) ==
    LET ac == accessCheck(s, sender) IN
    IF ~ac.ok THEN Fail(s, "ACCESS_DENIED", ac.checks)
    ELSE
    LET a == zone_add(s, zone, "forwardport", <<port, protocol, toport, toaddr>>) IN
    IF ~a.ok THEN Fail(a.s, a.err, ac.checks)
    ELSE
    LET _zone == a.zone
        t == timeout_add_seconds(a.s, timeout, "disable_forward_port",
                                 <<_zone, port, protocol, toport, toaddr>>)
        s1 == IF timeout > 0
              THEN addTimeout(t.s, _zone, PyTuple(<<port, protocol, toport, toaddr>>), t.tag)
              ELSE a.s IN
    Ok(s1, _zone, <<Signal("ForwardPortAdded", <<_zone, port, protocol, toport, toaddr, timeout>>)>>, ac.checks)

removeForwardPort(s, zone, port, protocol, toport, toaddr, sender) ==
    LET ac == accessCheck(s, sender) IN
    IF ~ac.ok THEN Fail(s, "ACCESS_DENIED", ac.checks)
    ELSE
    LET r == zone_remove(s, zone, "forwardport", <<port, protocol, toport, toaddr>>) IN
    IF ~r.ok THEN Fail(r.s, r.err, ac.checks)
    ELSE
    LET _zone == r.zone
        s1 == removeTimeout(r.s, _zone, PyTuple(<<port, protocol, toport, toaddr>>)) IN
    Ok(s1, _zone, <<Signal("ForwardPortRemoved", <<_zone, port, protocol, toport, toaddr>>)>>, ac.checks)

(***************************************************************************)
(* FirewallD: icmp blocks.                                                 *)
(***************************************************************************)
disableTimedIcmpBlock(s, zone, icmp, sender) ==
    IF ~HasTimeout(s, zone, PyStr(<<icmp>>)) THEN Fail(s, "KeyError", <<>>)
    ELSE
    LET s1 == DelTimeout(s, zone, PyStr(<<icmp>>))
        r == zone_remove(s1, zone, "icmpblock", <<icmp>>) IN
    IF ~r.ok THEN Fail(r.s, r.err, <<>>)
    ELSE Ok(r.s, NoValue, <<Signal("IcmpBlockRemoved", <<zone, icmp>>)>>, <<>>)

\* addIcmpBlock as it would be with the timer armed before the core call.
addIcmpBlock_arm_first(s, zone, icmp, timeout, sender) ==
    LET ac == accessCheck(s, sender) IN
    IF ~ac.ok THEN Fail(s, "ACCESS_DENIED", ac.checks)
    ELSE
    LET _zone == check_zone(s, zone)
        t == timeout_add_seconds(s, timeout, "disableTimedIcmpBlock",
                                 <<_zone, icmp, sender>>)
        s1 == IF timeout > 0
              THEN addTimeout(t.s, _zone, PyStr(<<icmp>>), t.tag)
              ELSE s
        a == zone_add(s1, zone, "icmpblock", <<icmp>>) IN
    IF ~a.ok THEN Fail(a.s, a.err, ac.checks)
    ELSE Ok(a.s, a.zone,
            <<Signal("IcmpBlockAdded", <<a.zone, icmp, timeout>>)>>, ac.checks)

addIcmpBlock(s, zone, icmp, timeout, sender) ==
    LET ac == accessCheck(s, sender) IN
    IF ~ac.ok THEN Fail(s, "ACCESS_DENIED", ac.checks)
    ELSE
    LET a == zone_add(s, zone, "icmpblock", <<icmp>>) IN
    IF ~a.ok THEN Fail(a.s, a.err, ac.checks)
    ELSE
    LET _zone == a.zone
        t == timeout_add_seconds(a.s, timeout, "disableTimedIcmpBlock",
                                 <<_zone, icmp, sender>>)
        s1 == IF timeout > 0
              THEN addTimeout(t.s, _zone, PyStr(<<icmp>>), t.tag)
              ELSE a.s IN
    Ok(s1, _zone, <<Signal("IcmpBlockAdded", <<_zone, icmp, timeout>>)>>, ac.checks)

removeIcmpBlock(s, zone, icmp, sender) ==
    LET ac == accessCheck(s, sender) IN
    IF ~ac.ok THEN Fail(s, "ACCESS_DENIED", ac.checks)
    ELSE
    LET r == zone_remove(s, zone, "icmpblock", <<icmp>>) IN
    IF ~r.ok THEN Fail(r.s, r.err, ac.checks)
    ELSE
    LET _zone == r.zone
        s1 == removeTimeout(r.s, _zone, PyStr(<<icmp>>)) IN
    Ok(s1, _zone, <<Signal("IcmpBlockRemoved", <<_zone, icmp>>)>>, ac.checks)

(***************************************************************************)
(* FirewallD: interfaces and sources.                                      *)
(***************************************************************************)
\* ZoneOfInterfaceChanged: its body emits the deprecated ZoneChanged before
\* the signal itself is sent.
\* ZoneOfInterfaceChanged as it would be without the deprecated signal.
ZoneOfInterfaceChanged_alone(zone, interface) ==
    <<Signal("ZoneOfInterfaceChanged", <<zone, interface>>)>>

ZoneOfInterfaceChanged(zone, interface) ==
    <<Signal("ZoneChanged", <<zone, interface>>),
      Signal("ZoneOfInterfaceChanged", <<zone, interface>>)>>

\* addInterface as it would be if it added the interface the way an element
\* is added to a zone.
addInterface_as_element(s, zone, interface, sender) ==
    LET ac == accessCheck(s, sender) IN
    IF ~ac.ok THEN Fail(s, "ACCESS_DENIED", ac.checks)
    ELSE
    LET a == zone_add(s, zone, "interface", <<interface>>) IN
    IF ~a.ok THEN Fail(a.s, a.err, ac.checks)
    ELSE Ok(a.s, a.zone, <<Signal("InterfaceAdded", <<a.zone, interface>>)>>,
            ac.checks)

addInterface(s, zone, interface, sender) ==
    LET ac == accessCheck(s, sender) IN
    IF ~ac.ok THEN Fail(s, "ACCESS_DENIED", ac.checks)
    ELSE
    LET a == binding_add(s, zone, "interface", <<interface>>) IN
    IF ~a.ok THEN Fail(a.s, a.err, ac.checks)
    ELSE Ok(a.s, a.zone, <<Signal("InterfaceAdded", <<a.zone, interface>>)>>,
            ac.checks)

changeZoneOfInterface(s, zone, interface, sender) ==
    LET ac == accessCheck(s, sender) IN
    IF ~ac.ok THEN Fail(s, "ACCESS_DENIED", ac.checks)
    ELSE
    LET a == binding_change(s, zone, "interface", <<interface>>) IN
    IF ~a.ok THEN Fail(a.s, a.err, ac.checks)
    ELSE Ok(a.s, a.zone, ZoneOfInterfaceChanged(a.zone, interface), ac.checks)

changeZone(s, zone, interface, sender) ==
    changeZoneOfInterface(s, zone, interface, sender)

removeInterface(s, zone, interface, sender) ==
    LET ac == accessCheck(s, sender) IN
    IF ~ac.ok THEN Fail(s, "ACCESS_DENIED", ac.checks)
    ELSE
    LET r == binding_remove(s, zone, "interface", <<interface>>) IN
    IF ~r.ok THEN Fail(r.s, r.err, ac.checks)
    ELSE Ok(r.s, r.zone,
            <<Signal("InterfaceRemoved", <<r.zone, interface>>)>>, ac.checks)

addSource(s, zone, source, sender) ==
    LET ac == accessCheck(s, sender) IN
    IF ~ac.ok THEN Fail(s, "ACCESS_DENIED", ac.checks)
    ELSE
    LET a == binding_add(s, zone, "source", <<source>>) IN
    IF ~a.ok THEN Fail(a.s, a.err, ac.checks)
    ELSE Ok(a.s, a.zone, <<Signal("SourceAdded", <<a.zone, source>>)>>,
            ac.checks)

changeZoneOfSource(s, zone, source, sender) ==
    LET ac == accessCheck(s, sender) IN
    IF ~ac.ok THEN Fail(s, "ACCESS_DENIED", ac.checks)
    ELSE
    LET a == binding_change(s, zone, "source", <<source>>) IN
    IF ~a.ok THEN Fail(a.s, a.err, ac.checks)
    ELSE Ok(a.s, a.zone, <<Signal("ZoneOfSourceChanged", <<a.zone, source>>)>>,
            ac.checks)

removeSource(s, zone, source, sender) ==
    LET ac == accessCheck(s, sender) IN
    IF ~ac.ok THEN Fail(s, "ACCESS_DENIED", ac.checks)
    ELSE
    LET r == binding_remove(s, zone, "source", <<source>>) IN
    IF ~r.ok THEN Fail(r.s, r.err, ac.checks)
    ELSE Ok(r.s, r.zone, <<Signal("SourceRemoved", <<r.zone, source>>)>>,
            ac.checks)

(***************************************************************************)
(* FirewallD: default zone, reload, panic mode.                            *)
(***************************************************************************)
setDefaultZone(s, zone, sender) ==
    LET ac == accessCheck(s, sender) IN
    IF ~ac.ok THEN Fail(s, "ACCESS_DENIED", ac.checks)
    ELSE
    LET a == set_default_zone(s, zone) IN
    IF ~a.ok THEN Fail(a.s, a.err, ac.checks)
    ELSE Ok(a.s, NoValue, <<Signal("DefaultZoneChanged", <<zone>>)>>,
            ac.checks)

\* The steps of a reload that can fail: self.fw.reload(), which then leaves
\* the runtime as it was, and self.config.reload().
ReloadFaults == {<<"fw", "">>, <<"config", "">>}
COMMAND_FAILED == "COMMAND_FAILED"

\* reload as it would be with Reloaded emitted before self.config.reload().
reload_signal_first(s, sender, fault) ==
    IF fault = <<"fw", "">> THEN Fail(s, COMMAND_FAILED, <<>>)
    ELSE IF fault = <<"config", "">>
    THEN [Fail(fw_reload(s), StoreError, <<>>)
            EXCEPT !.signals = <<Signal("Reloaded", <<>>)>>]
    ELSE Ok(fw_reload(s), NoValue, <<Signal("Reloaded", <<>>)>>, <<>>)

reload(s, sender, fault) ==
    IF fault = <<"fw", "">> THEN Fail(s, COMMAND_FAILED, <<>>)
    ELSE IF fault = <<"config", "">> THEN Fail(fw_reload(s), StoreError, <<>>)
    ELSE Ok(fw_reload(s), NoValue, <<Signal("Reloaded", <<>>)>>, <<>>)

completeReload(s, sender, fault) ==
    IF fault = <<"fw", "">> THEN Fail(s, COMMAND_FAILED, <<>>)
    ELSE IF fault = <<"config", "">> THEN Fail(fw_reload(s), StoreError, <<>>)
    ELSE Ok(fw_reload(s), NoValue, <<Signal("Reloaded", <<>>)>>, <<>>)

\* fw.enable_panic_mode() / fw.disable_panic_mode()
enable_panic_mode(s) ==
    IF s.panic THEN CoreFail(s, "ALREADY_ENABLED")
    ELSE CoreOk([s EXCEPT !.panic = TRUE], NoValue)
disable_panic_mode(s) ==
    IF ~s.panic THEN CoreFail(s, "NOT_ENABLED")
    ELSE CoreOk([s EXCEPT !.panic = FALSE], NoValue)

enablePanicMode(s, sender) ==
    LET ac == accessCheck(s, sender) IN
    IF ~ac.ok THEN Fail(s, "ACCESS_DENIED", ac.checks)
    ELSE
    LET a == enable_panic_mode(s) IN
    IF ~a.ok THEN Fail(a.s, a.err, ac.checks)
    ELSE Ok(a.s, NoValue, <<Signal("PanicModeEnabled", <<>>)>>, ac.checks)

disablePanicMode(s, sender) ==
    LET ac == accessCheck(s, sender) IN
    IF ~ac.ok THEN Fail(s, "ACCESS_DENIED", ac.checks)
    ELSE
    LET a == disable_panic_mode(s) IN
    IF ~a.ok THEN Fail(a.s, a.err, ac.checks)
    ELSE Ok(a.s, NoValue, <<Signal("PanicModeDisabled", <<>>)>>, ac.checks)

(***************************************************************************)
(* FirewallD: lockdown and its whitelist.                                  *)
(***************************************************************************)
\* fw.policies.enable_lockdown() / disable_lockdown()
enable_lockdown(s) ==
    IF s.lockdown THEN CoreFail(s, "ALREADY_ENABLED")
    ELSE CoreOk([s EXCEPT !.lockdown = TRUE], NoValue)
disable_lockdown(s) ==
    IF ~s.lockdown THEN CoreFail(s, "NOT_ENABLED")
    ELSE CoreOk([s EXCEPT !.lockdown = FALSE], NoValue)

\* fw.policies.lockdown_whitelist.add_<kind> / remove_<kind>
whitelist_add(s, key, value) ==
    IF value \in s.whitelist[key] THEN CoreFail(s, "ALREADY_ENABLED")
    ELSE CoreOk([s EXCEPT !.whitelist[key] = @ \cup {value}], NoValue)
whitelist_remove(s, key, value) ==
    IF value \notin s.whitelist[key] THEN CoreFail(s, "NOT_ENABLED")
    ELSE CoreOk([s EXCEPT !.whitelist[key] = @ \ {value}], NoValue)

enableLockdown(s, sender) ==
    LET ac == accessCheck(s, sender) IN
    IF ~ac.ok THEN Fail(s, "ACCESS_DENIED", ac.checks)
    ELSE
    LET a == enable_lockdown(s) IN
    IF ~a.ok THEN Fail(a.s, a.err, ac.checks)
    ELSE Ok(a.s, NoValue, <<Signal("LockdownEnabled", <<>>)>>, ac.checks)

\* disableLockdown as it would be without the lockdown check.
disableLockdown_ungated(s, sender) ==
    LET a == disable_lockdown(s) IN
    IF ~a.ok THEN Fail(a.s, a.err, <<>>)
    ELSE Ok(a.s, NoValue, <<Signal("LockdownDisabled", <<>>)>>, <<>>)

disableLockdown(s, sender) ==
    LET ac == accessCheck(s, sender) IN
    IF ~ac.ok THEN Fail(s, "ACCESS_DENIED", ac.checks)
    ELSE
    LET a == disable_lockdown(s) IN
    IF ~a.ok THEN Fail(a.s, a.err, ac.checks)
    ELSE Ok(a.s, NoValue, <<Signal("LockdownDisabled", <<>>)>>, ac.checks)

\* queryLockdown as it would be with the lockdown check of the mutators.
queryLockdown_gated(s, sender) ==
    LET ac == accessCheck(s, sender) IN
    IF ~ac.ok THEN Fail(s, "ACCESS_DENIED", ac.checks)
    ELSE Ok(s, s.lockdown, <<>>, ac.checks)

queryLockdown(s, sender) == Ok(s, s.lockdown, <<>>, <<>>)

addLockdownWhitelistCommand(s, command, sender) ==
    LET ac == accessCheck(s, sender) IN
    IF ~ac.ok THEN Fail(s, "ACCESS_DENIED", ac.checks)
    ELSE
    LET a == whitelist_add(s, "command", command) IN
    IF ~a.ok THEN Fail(a.s, a.err, ac.checks)
    ELSE Ok(a.s, NoValue, <<Signal("LockdownWhitelistCommandAdded", <<command>>)>>,
            ac.checks)

removeLockdownWhitelistCommand(s, command, sender) ==
    LET ac == accessCheck(s, sender) IN
    IF ~ac.ok THEN Fail(s, "ACCESS_DENIED", ac.checks)
    ELSE
    LET a == whitelist_remove(s, "command", command) IN
    IF ~a.ok THEN Fail(a.s, a.err, ac.checks)
    ELSE Ok(a.s, NoValue, <<Signal("LockdownWhitelistCommandRemoved", <<command>>)>>,
            ac.checks)

queryLockdownWhitelistCommand(s, command, sender) ==
    Ok(s, command \in s.whitelist.command, <<>>, <<>>)

getLockdownWhitelistCommands(s, sender) == Ok(s, s.whitelist.command, <<>>, <<>>)

addLockdownWhitelistUid(s, uid, sender) ==
    LET ac == accessCheck(s, sender) IN
    IF ~ac.ok THEN Fail(s, "ACCESS_DENIED", ac.checks)
    ELSE
    LET a == whitelist_add(s, "uid", uid) IN
    IF ~a.ok THEN Fail(a.s, a.err, ac.checks)
    ELSE Ok(a.s, NoValue, <<Signal("LockdownWhitelistUidAdded", <<uid>>)>>,
            ac.checks)

removeLockdownWhitelistUid(s, uid, sender) ==
    LET ac == accessCheck(s, sender) IN
    IF ~ac.ok THEN Fail(s, "ACCESS_DENIED", ac.checks)
    ELSE
    LET a == whitelist_remove(s, "uid", uid) IN
    IF ~a.ok THEN Fail(a.s, a.err, ac.checks)
    ELSE Ok(a.s, NoValue, <<Signal("LockdownWhitelistUidRemoved", <<uid>>)>>,
            ac.checks)

queryLockdownWhitelistUid(s, uid, sender) ==
    Ok(s, uid \in s.whitelist.uid, <<>>, <<>>)

getLockdownWhitelistUids(s, sender) == Ok(s, s.whitelist.uid, <<>>, <<>>)

addLockdownWhitelistUser(s, user, sender) ==
    LET ac == accessCheck(s, sender) IN
    IF ~ac.ok THEN Fail(s, "ACCESS_DENIED", ac.checks)
    ELSE
    LET a == whitelist_add(s, "user", user) IN
    IF ~a.ok THEN Fail(a.s, a.err, ac.checks)
    ELSE Ok(a.s, NoValue, <<Signal("LockdownWhitelistUserAdded", <<user>>)>>,
            ac.checks)

removeLockdownWhitelistUser(s, user, sender) ==
    LET ac == accessCheck(s, sender) IN
    IF ~ac.ok THEN Fail(s, "ACCESS_DENIED", ac.checks)
    ELSE
    LET a == whitelist_remove(s, "user", user) IN
    IF ~a.ok THEN Fail(a.s, a.err, ac.checks)
    ELSE Ok(a.s, NoValue, <<Signal("LockdownWhitelistUserRemoved", <<user>>)>>,
            ac.checks)

queryLockdownWhitelistUser(s, user, sender) ==
    Ok(s, user \in s.whitelist.user, <<>>, <<>>)

getLockdownWhitelistUsers(s, sender) == Ok(s, s.whitelist.user, <<>>, <<>>)

addLockdownWhitelistContext(s, context, sender) ==
    LET ac == accessCheck(s, sender) IN
    IF ~ac.ok THEN Fail(s, "ACCESS_DENIED", ac.checks)
    ELSE
    LET a == whitelist_add(s, "context", context) IN
    IF ~a.ok THEN Fail(a.s, a.err, ac.checks)
    ELSE Ok(a.s, NoValue, <<Signal("LockdownWhitelistContextAdded", <<context>>)>>,
            ac.checks)

removeLockdownWhitelistContext(s, context, sender) ==
    LET ac == accessCheck(s, sender) IN
    IF ~ac.ok THEN Fail(s, "ACCESS_DENIED", ac.checks)
    ELSE
    LET a == whitelist_remove(s, "context", context) IN
    IF ~a.ok THEN Fail(a.s, a.err, ac.checks)
    ELSE Ok(a.s, NoValue, <<Signal("LockdownWhitelistContextRemoved", <<context>>)>>,
            ac.checks)

queryLockdownWhitelistContext(s, context, sender) ==
    Ok(s, context \in s.whitelist.context, <<>>, <<>>)

getLockdownWhitelistContexts(s, sender) == Ok(s, s.whitelist.context, <<>>, <<>>)

(***************************************************************************)
(* FirewallD: tracked passthroughs of the direct interface.                *)
(***************************************************************************)
InSeq(x, seq) == \E i \in 1 .. Len(seq) : seq[i] = x
Reversed(seq) == [i \in 1 .. Len(seq) |-> seq[Len(seq) + 1 - i]]

\* fw.direct.add_passthrough / remove_passthrough
add_passthrough(s, ipv, args) ==
    IF InSeq(<<ipv, args>>, s.passthroughs) THEN CoreFail(s, "ALREADY_ENABLED")
    ELSE CoreOk([s EXCEPT !.passthroughs = Append(@, <<ipv, args>>)], NoValue)
remove_passthrough(s, ipv, args) ==
    IF ~InSeq(<<ipv, args>>, s.passthroughs) THEN CoreFail(s, "NOT_ENABLED")
    ELSE CoreOk([s EXCEPT !.passthroughs =
                    SelectSeq(@, LAMBDA p : p # <<ipv, args>>)], NoValue)

addPassthrough(s, ipv, args, sender) ==
    LET ac == accessCheck(s, sender) IN
    IF ~ac.ok THEN Fail(s, "ACCESS_DENIED", ac.checks)
    ELSE
    LET a == add_passthrough(s, ipv, args) IN
    IF ~a.ok THEN Fail(a.s, a.err, ac.checks)
    ELSE Ok(a.s, NoValue, <<Signal("PassthroughAdded", <<ipv, args>>)>>,
            ac.checks)

removePassthrough(s, ipv, args, sender) ==
    LET ac == accessCheck(s, sender) IN
    IF ~ac.ok THEN Fail(s, "ACCESS_DENIED", ac.checks)
    ELSE
    LET a == remove_passthrough(s, ipv, args) IN
    IF ~a.ok THEN Fail(a.s, a.err, ac.checks)
    ELSE Ok(a.s, NoValue, <<Signal("PassthroughRemoved", <<ipv, args>>)>>,
            ac.checks)

getAllPassthroughs(s, sender) == Ok(s, s.passthroughs, <<>>, <<>>)

\* The loop of removeAllPassthroughs over the list it read at the start:
\* each removePassthrough is called without a sender; an exception ends it.
RECURSIVE RemoveEach(_, _, _, _)
RemoveEach(s, list, signals, checks) ==
    IF list = <<>> THEN Ok(s, NoValue, signals, checks)
    ELSE LET r == removePassthrough(s, Head(list)[1], Head(list)[2], NoSender)
         IN IF r.err # ""
            THEN [r EXCEPT !.signals = signals, !.checks = checks \o r.checks]
            ELSE RemoveEach(r.s, Tail(list), signals \o r.signals,
                            checks \o r.checks)

\* removeAllPassthroughs as it would be without reversed().
removeAllPassthroughs_in_order(s, sender) ==
    RemoveEach(s, getAllPassthroughs(s, NoSender).ret, <<>>, <<>>)

removeAllPassthroughs(s, sender) ==
    RemoveEach(s, Reversed(getAllPassthroughs(s, NoSender).ret), <<>>, <<>>)

(***************************************************************************)
(* FirewallD: chains and rules of the direct interface.                    *)
(***************************************************************************)
\* fw.direct.add_chain / remove_chain
add_chain(s, ipv, table, chain) ==
    IF <<ipv, table, chain>> \in s.chains THEN CoreFail(s, "ALREADY_ENABLED")
    ELSE CoreOk([s EXCEPT !.chains = @ \cup {<<ipv, table, chain>>}], NoValue)
remove_chain(s, ipv, table, chain) ==
    IF <<ipv, table, chain>> \notin s.chains THEN CoreFail(s, "NOT_ENABLED")
    ELSE CoreOk([s EXCEPT !.chains = @ \ {<<ipv, table, chain>>}], NoValue)

\* fw.direct.add_rule / remove_rule / get_rules
add_rule(s, ipv, table, chain, priority, args) ==
    IF InSeq(<<ipv, table, chain, priority, args>>, s.rules)
    THEN CoreFail(s, "ALREADY_ENABLED")
    ELSE CoreOk([s EXCEPT !.rules =
                    Append(@, <<ipv, table, chain, priority, args>>)], NoValue)
remove_rule(s, ipv, table, chain, priority, args) ==
    IF ~InSeq(<<ipv, table, chain, priority, args>>, s.rules)
    THEN CoreFail(s, "NOT_ENABLED")
    ELSE CoreOk([s EXCEPT !.rules =
                    SelectSeq(@, LAMBDA r :
                                r # <<ipv, table, chain, priority, args>>)],
                NoValue)
get_rules(s, ipv, table, chain) ==
    LET of_chain == SelectSeq(s.rules, LAMBDA r :
                                <<r[1], r[2], r[3]>> = <<ipv, table, chain>>)
    IN [i \in 1 .. Len(of_chain) |-> <<of_chain[i][4], of_chain[i][5]>>]

\* addChain as it would be with the signal sent before the core is asked.
addChain_signal_first(s, ipv, table, chain, sender) ==
    LET ac == accessCheck(s, sender) IN
    IF ~ac.ok THEN Fail(s, "ACCESS_DENIED", ac.checks)
    ELSE
    LET a == add_chain(s, ipv, table, chain) IN
    IF ~a.ok
    THEN [Fail(a.s, a.err, ac.checks) EXCEPT
             !.signals = <<Signal("ChainAdded", <<ipv, table, chain>>)>>]
    ELSE Ok(a.s, NoValue, <<Signal("ChainAdded", <<ipv, table, chain>>)>>,
            ac.checks)

addChain(s, ipv, table, chain, sender) ==
    LET ac == accessCheck(s, sender) IN
    IF ~ac.ok THEN Fail(s, "ACCESS_DENIED", ac.checks)
    ELSE
    LET a == add_chain(s, ipv, table, chain) IN
    IF ~a.ok THEN Fail(a.s, a.err, ac.checks)
    ELSE Ok(a.s, NoValue, <<Signal("ChainAdded", <<ipv, table, chain>>)>>,
            ac.checks)

removeChain(s, ipv, table, chain, sender) ==
    LET ac == accessCheck(s, sender) IN
    IF ~ac.ok THEN Fail(s, "ACCESS_DENIED", ac.checks)
    ELSE
    LET a == remove_chain(s, ipv, table, chain) IN
    IF ~a.ok THEN Fail(a.s, a.err, ac.checks)
    ELSE Ok(a.s, NoValue, <<Signal("ChainRemoved", <<ipv, table, chain>>)>>,
            ac.checks)

addRule(s, ipv, table, chain, priority, args, sender) ==
    LET ac == accessCheck(s, sender) IN
    IF ~ac.ok THEN Fail(s, "ACCESS_DENIED", ac.checks)
    ELSE
    LET a == add_rule(s, ipv, table, chain, priority, args) IN
    IF ~a.ok THEN Fail(a.s, a.err, ac.checks)
    ELSE Ok(a.s, NoValue,
            <<Signal("RuleAdded", <<ipv, table, chain, priority, args>>)>>,
            ac.checks)

removeRule(s, ipv, table, chain, priority, args, sender) ==
    LET ac == accessCheck(s, sender) IN
    IF ~ac.ok THEN Fail(s, "ACCESS_DENIED", ac.checks)
    ELSE
    LET a == remove_rule(s, ipv, table, chain, priority, args) IN
    IF ~a.ok THEN Fail(a.s, a.err, ac.checks)
    ELSE Ok(a.s, NoValue,
            <<Signal("RuleRemoved", <<ipv, table, chain, priority, args>>)>>,
            ac.checks)

\* The loop of removeRules over the rules of the chain; an exception ends it.
RECURSIVE RemoveEachRule(_, _, _, _, _, _, _)
RemoveEachRule(s, ipv, table, chain, list, signals, checks) ==
    IF list = <<>> THEN Ok(s, NoValue, signals, checks)
    ELSE LET a == remove_rule(s, ipv, table, chain, Head(list)[1],
                              Head(list)[2]) IN
         IF ~a.ok THEN [Fail(a.s, a.err, checks) EXCEPT !.signals = signals]
         ELSE RemoveEachRule(a.s, ipv, table, chain, Tail(list),
                  Append(signals,
                         Signal("RuleRemoved", <<ipv, table, chain,
                                Head(list)[1], Head(list)[2]>>)),
                  checks)

\* removeRules as it would be when looping over the list the core keeps,
\* not over a copy: each removal moves the next rule under the loop index,
\* so every second rule is skipped.
removeRules_live_list(s, ipv, table, chain, sender) ==
    LET ac == accessCheck(s, sender)
        list == get_rules(s, ipv, table, chain) IN
    IF ~ac.ok THEN Fail(s, "ACCESS_DENIED", ac.checks)
    ELSE RemoveEachRule(s, ipv, table, chain,
                        [i \in 1 .. (Len(list) + 1) \div 2 |-> list[2 * i - 1]],
                        <<>>, ac.checks)

removeRules(s, ipv, table, chain, sender) ==
    LET ac == accessCheck(s, sender) IN
    IF ~ac.ok THEN Fail(s, "ACCESS_DENIED", ac.checks)
    ELSE RemoveEachRule(s, ipv, table, chain, get_rules(s, ipv, table, chain),
                        <<>>, ac.checks)

(***************************************************************************)
(* FirewallD: the properties of the main interface.                        *)
(***************************************************************************)
DBUS_INTERFACE == "org.fedoraproject.FirewallD1"
UnknownInterface == "org.freedesktop.DBus.Error.UnknownInterface"
AccessDenied == "org.freedesktop.DBus.Error.AccessDenied"

\* What the properties read: constants of the build and flags of the core.
PropertyValue(s, prop) ==
    CASE prop = "version" -> "VERSION"
      [] prop = "interface_version" ->
            "DBUS_INTERFACE_VERSION" \o "." \o "DBUS_INTERFACE_REVISION"
      [] prop = "state" -> "RUNNING"
      [] prop = "IPv4" -> "ip4tables_enabled"
      [] prop = "IPv6" -> "ip6tables_enabled"
      [] prop = "IPv6_rpfilter" -> "ipv6_rpfilter_enabled"
      [] prop = "BRIDGE" -> "ebtables_enabled"

\* _get_property(prop)
_get_property(s, prop) ==
    IF prop \in {"version", "interface_version", "state", "IPv4", "IPv6",
                 "IPv6_rpfilter", "BRIDGE"}
    THEN Ok(s, PropertyValue(s, prop), <<>>, <<>>)
    ELSE Fail(s, AccessDenied \o ": Property '" \o prop
                 \o "' isn't exported (or may not exist)", <<>>)

\* Get as it would be without the test of the interface name.
Get_any_interface(s, interface_name, property_name, sender) ==
    _get_property(s, property_name)

Get(s, interface_name, property_name, sender) ==
    IF interface_name # DBUS_INTERFACE
    THEN Fail(s, UnknownInterface \o ": FirewallD does not implement "
                 \o interface_name, <<>>)
    ELSE _get_property(s, property_name)

\* A Python dict is the set of its <<key, value>> items.
GetAll(s, interface_name, sender) ==
    IF interface_name # DBUS_INTERFACE
    THEN Fail(s, UnknownInterface \o ": FirewallD does not implement "
                 \o interface_name, <<>>)
    ELSE Ok(s, {<<"version", _get_property(s, "version").ret>>,
                <<"interface_version",
                  _get_property(s, "interface_version").ret>>,
                <<"state", _get_property(s, "state").ret>>,
                <<"IPv4", _get_property(s, "IPv4").ret>>,
                <<"IPv6", _get_property(s, "IPv6").ret>>,
                <<"IPv6_rpfilter", _get_property(s, "IPv6_rpfilter").ret>>,
                <<"BRIDGE", _get_property(s, "BRIDGE").ret>>}, <<>>, <<>>)

\* Set as it would be if it stored the value of a property it exports.
Set_stores(s, interface_name, property_name, new_value, sender) ==
    LET ac == accessCheck(s, sender) IN
    IF ~ac.ok THEN Fail(s, "ACCESS_DENIED", ac.checks)
    ELSE IF interface_name # DBUS_INTERFACE
    THEN Fail(s, UnknownInterface \o ": FirewallD does not implement "
                 \o interface_name, ac.checks)
    ELSE IF _get_property(s, property_name).err = ""
    THEN Ok(s, NoValue, <<>>, ac.checks)
    ELSE Fail(s, AccessDenied \o ": Property '" \o property_name
                 \o "' is not settable", ac.checks)

Set(s, interface_name, property_name, new_value, sender) ==
    LET ac == accessCheck(s, sender) IN
    IF ~ac.ok THEN Fail(s, "ACCESS_DENIED", ac.checks)
    ELSE IF interface_name # DBUS_INTERFACE
    THEN Fail(s, UnknownInterface \o ": FirewallD does not implement "
                 \o interface_name, ac.checks)
    ELSE Fail(s, AccessDenied \o ": Property '" \o property_name
                 \o "' is not settable", ac.checks)

(***************************************************************************)
(* FirewallD: the zones that are in use.                                   *)
(***************************************************************************)
\* fw.zone.get_zones(), list_interfaces(zone), list_sources(zone)
get_zones(s) == <<"public", "work">>
list_interfaces(s, zone) ==
    {i \in Interfaces :
        Entry(check_zone(s, zone), "interface", <<i>>) \in s.settings}
list_sources(s, zone) ==
    {a \in SourceAddrs :
        Entry(check_zone(s, zone), "source", <<a>>) \in s.settings}

\* The loop of getActiveZones over the zones, building the dict zones.
RECURSIVE ActiveZonesOf(_, _, _)
ActiveZonesOf(s, list, zones) ==
    IF list = <<>> THEN zones
    ELSE LET zone == Head(list)
             interfaces == list_interfaces(s, zone)
             sources_ == list_sources(s, zone) IN
         IF Cardinality(interfaces) + Cardinality(sources_) > 0
         THEN ActiveZonesOf(s, Tail(list), zones \cup
                {<<zone,
                   (IF Cardinality(interfaces) > 0
                    THEN {<<"interfaces", interfaces>>} ELSE {})
                   \cup (IF Cardinality(sources_) > 0
                         THEN {<<"sources", sources_>>} ELSE {})>>})
         ELSE ActiveZonesOf(s, Tail(list), zones)

\* getActiveZones as it would be if it listed every zone with both keys.
getActiveZones_every_zone(s, sender) ==
    Ok(s, {<<get_zones(s)[i],
             {<<"interfaces", list_interfaces(s, get_zones(s)[i])>>,
              <<"sources", list_sources(s, get_zones(s)[i])>>}>> :
           i \in DOMAIN get_zones(s)}, <<>>, <<>>)

getActiveZones(s, sender) == Ok(s, ActiveZonesOf(s, get_zones(s), {}), <<>>, <<>>)

(***************************************************************************)
(* FirewallD: runtimeToPermanent and the persistent store (self.config).   *)
(***************************************************************************)
\* fw.service.get_services(), fw.icmptype.get_icmptypes()
get_services(s) == <<"gre", "ssh">>
get_icmptypes(s) == <<"echo-request">>

\* getServiceSettings, getIcmpTypeSettings, getZoneSettings: the settings
\* the runtime holds.
export_config(name) == name \o ".xml as loaded"
getServiceSettings(s, service, sender) ==
    Ok(s, export_config(service), <<>>, <<>>)
getIcmpTypeSettings(s, icmptype, sender) ==
    Ok(s, export_config(icmptype), <<>>, <<>>)
\* getZoneSettings as it would be if it left out the entries that a timer is
\* armed to remove.
getZoneSettings_untimed(s, zone, sender) ==
    Ok(s, {e \in s.settings :
              /\ e.zone = check_zone(s, zone)
              /\ \A t \in s.timeouts : t.zone # e.zone},
       <<>>, <<>>)

getZoneSettings(s, zone, sender) ==
    Ok(s, {e \in s.settings : e.zone = check_zone(s, zone)}, <<>>, <<>>)

\* The store as start() finds it: what the runtime was loaded from.
StoreAtStart ==
    [service |-> [n \in {"gre", "ssh"} |-> export_config(n)],
     icmptype |-> [n \in {"echo-request"} |-> export_config(n)],
     zone |-> Zones,
     direct |-> <<{}, <<>>, <<>> >>,
     whitelist |-> <<ConfiguredWhitelist.command, ConfiguredWhitelist.context,
                     ConfiguredWhitelist.user, ConfiguredWhitelist.uid>>]

\* A call on self.config or on one of its objects, as storeOps records it.
StoreOp(s, cat, name, op) == [s EXCEPT !.storeOps = Append(@, <<cat, name, op>>)]

\* self.config.get<Category>ByName(name) finds an object.
InStore(s, cat, name) ==
    IF cat = "zone" THEN name \in s.store.zone ELSE s.store[cat][name] # NoValue
\* conf_obj.getSettings()
StoredSettings(s, cat, name) ==
    IF cat = "zone" THEN {e \in s.permanent : e.zone = name}
    ELSE s.store[cat][name]
\* self.config.add<Category>(name, config) and conf_obj.update(config)
WriteStore(s, cat, name, config) ==
    IF cat = "zone"
    THEN [s EXCEPT !.permanent = {e \in @ : e.zone # name} \cup config,
                   !.store.zone = @ \cup {name}]
    ELSE [s EXCEPT !.store[cat][name] = config]

\* The failure of a store call on the entity the fault is about.
Faults ==
    {<<"service", "gre">>, <<"service", "ssh">>, <<"icmptype", "echo-request">>,
     <<"zone", "public">>, <<"zone", "work">>, <<"direct", "">>,
     <<"policies", "">>}
\* FirewallError(RT_TO_PERM_FAILED, msg)
RT_TO_PERM_FAILED(msg) == "RT_TO_PERM_FAILED: " \o msg

RuntimeConfig(s, cat, name) ==
    CASE cat = "service" -> getServiceSettings(s, name, NoSender).ret
      [] cat = "icmptype" -> getIcmpTypeSettings(s, name, NoSender).ret
      [] cat = "zone" -> getZoneSettings(s, name, NoSender).ret

\* One of the three loops of runtimeToPermanent: for each name, look the
\* object up, create it when the store has none, update it when its settings
\* differ; the first exception ends the call.
RECURSIVE SaveEach(_, _, _, _)
SaveEach(s, cat, names, fault) ==
    IF names = <<>> THEN [ok |-> TRUE, s |-> s, err |-> ""]
    ELSE LET name == Head(names)
             config == RuntimeConfig(s, cat, name)
             looked == StoreOp(s, cat, name, "getByName") IN
         IF fault = <<cat, name>>
         THEN [ok |-> FALSE, s |-> looked,
               err |-> RT_TO_PERM_FAILED(cat \o " '" \o name \o "' : "
                                         \o StoreError)]
         ELSE IF ~InStore(looked, cat, name)
         THEN SaveEach(WriteStore(StoreOp(looked, cat, name, "add"),
                                  cat, name, config),
                       cat, Tail(names), fault)
         ELSE IF StoredSettings(looked, cat, name) # config
         THEN SaveEach(WriteStore(StoreOp(looked, cat, name, "update"),
                                  cat, name, config),
                       cat, Tail(names), fault)
         ELSE SaveEach(looked, cat, Tail(names), fault)

\* self.config.getSettings(): the direct configuration of the store.
config_getSettings(s) == s.store.direct

\* The direct section.
SaveDirect(s, fault) ==
    LET config == <<s.chains, s.rules, s.passthroughs>>
        asked == StoreOp(s, "direct", "", "getSettings") IN
    IF fault = <<"direct", "">>
    THEN [ok |-> FALSE, s |-> asked,
          err |-> RT_TO_PERM_FAILED("direct configuration: " \o StoreError)]
    ELSE IF config_getSettings(asked) # config
    THEN [ok |-> TRUE, err |-> "",
          s |-> [StoreOp(asked, "direct", "", "update")
                   EXCEPT !.store.direct = config]]
    ELSE [ok |-> TRUE, s |-> asked, err |-> ""]

\* The policies section: the whitelist is compared with getSettings() too.
SavePolicies(s, fault) ==
    LET config == <<s.whitelist.command, s.whitelist.context,
                    s.whitelist.user, s.whitelist.uid>>
        asked == StoreOp(s, "policies", "", "getSettings") IN
    IF fault = <<"policies", "">>
    THEN [ok |-> FALSE, s |-> asked,
          err |-> RT_TO_PERM_FAILED("policies configuration: " \o StoreError)]
    ELSE IF config_getSettings(asked) # config
    THEN [ok |-> TRUE, err |-> "",
          s |-> [StoreOp(asked, "policies", "", "setLockdownWhitelist")
                   EXCEPT !.store.whitelist = config]]
    ELSE [ok |-> TRUE, s |-> asked, err |-> ""]

\* runtimeToPermanent as it would be with the zones saved before the services.
runtimeToPermanent_zones_first(s, sender, fault) ==
    LET a == SaveEach([s EXCEPT !.storeOps = <<>>], "zone", get_zones(s), fault)
    IN  IF ~a.ok THEN Fail(a.s, a.err, <<>>) ELSE
    LET b == SaveEach(a.s, "service", get_services(s), fault) IN
        IF ~b.ok THEN Fail(b.s, b.err, <<>>) ELSE
    LET c == SaveEach(b.s, "icmptype", get_icmptypes(s), fault) IN
        IF ~c.ok THEN Fail(c.s, c.err, <<>>) ELSE
    LET d == SaveDirect(c.s, fault) IN
        IF ~d.ok THEN Fail(d.s, d.err, <<>>) ELSE
    LET e == SavePolicies(d.s, fault) IN
        IF ~e.ok THEN Fail(e.s, e.err, <<>>)
        ELSE Ok(e.s, NoValue, <<>>, <<>>)

runtimeToPermanent(s, sender, fault) ==
    LET a == SaveEach([s EXCEPT !.storeOps = <<>>], "service",
                      get_services(s), fault)
    IN  IF ~a.ok THEN Fail(a.s, a.err, <<>>) ELSE
    LET b == SaveEach(a.s, "icmptype", get_icmptypes(s), fault) IN
        IF ~b.ok THEN Fail(b.s, b.err, <<>>) ELSE
    LET c == SaveEach(b.s, "zone", get_zones(s), fault) IN
        IF ~c.ok THEN Fail(c.s, c.err, <<>>) ELSE
    LET d == SaveDirect(c.s, fault) IN
        IF ~d.ok THEN Fail(d.s, d.err, <<>>) ELSE
    LET e == SavePolicies(d.s, fault) IN
        IF ~e.ok THEN Fail(e.s, e.err, <<>>)
        ELSE Ok(e.s, NoValue, <<>>, <<>>)

(***************************************************************************)
(* The polkit action each D-Bus method is tagged with.                     *)
(***************************************************************************)
PK_ACTION_ALL == "org.fedoraproject.FirewallD1.all"
PK_ACTION_CONFIG == "org.fedoraproject.FirewallD1.config"
PK_ACTION_CONFIG_INFO == "org.fedoraproject.FirewallD1.config.info"
PK_ACTION_DIRECT == "org.fedoraproject.FirewallD1.direct"
PK_ACTION_DIRECT_INFO == "org.fedoraproject.FirewallD1.direct.info"
PK_ACTION_INFO == "org.fedoraproject.FirewallD1.info"
PK_ACTION_POLICIES == "org.fedoraproject.FirewallD1.policies"
PK_ACTION_POLICIES_INFO == "org.fedoraproject.FirewallD1.policies.info"
PolkitActions ==
    {PK_ACTION_ALL, PK_ACTION_CONFIG, PK_ACTION_CONFIG_INFO, PK_ACTION_DIRECT,
     PK_ACTION_DIRECT_INFO, PK_ACTION_INFO, PK_ACTION_POLICIES,
     PK_ACTION_POLICIES_INFO}

\* The action of a method that has no require_auth decorator.
default_polkit_auth_required == PK_ACTION_INFO

\* @slip.dbus.polkit.require_auth(...) of each method, read off its decorators.
require_auth(op) ==
    IF op \in {"Set", "reload", "completeReload", "runtimeToPermanent",
               "enablePanicMode", "disablePanicMode", "setDefaultZone",
               "addInterface", "changeZone", "changeZoneOfInterface",
               "removeInterface", "addSource", "changeZoneOfSource",
               "removeSource", "addRichRule", "removeRichRule", "addService",
               "removeService", "addPort", "removePort", "addProtocol",
               "removeProtocol", "addMasquerade", "removeMasquerade",
               "addForwardPort", "removeForwardPort", "addIcmpBlock",
               "removeIcmpBlock"}
    THEN PK_ACTION_CONFIG
    ELSE IF op \in {"enableLockdown", "disableLockdown",
                    "addLockdownWhitelistCommand",
                    "removeLockdownWhitelistCommand",
                    "addLockdownWhitelistUid", "removeLockdownWhitelistUid",
                    "addLockdownWhitelistUser", "removeLockdownWhitelistUser",
                    "addLockdownWhitelistContext",
                    "removeLockdownWhitelistContext"}
    THEN PK_ACTION_POLICIES
    ELSE IF op \in {"queryLockdown", "queryLockdownWhitelistCommand",
                    "getLockdownWhitelistCommands",
                    "queryLockdownWhitelistUid", "getLockdownWhitelistUids",
                    "queryLockdownWhitelistUser", "getLockdownWhitelistUsers",
                    "queryLockdownWhitelistContext",
                    "getLockdownWhitelistContexts"}
    THEN PK_ACTION_POLICIES_INFO
    ELSE IF op \in {"queryPanicMode", "getZoneSettings", "listServices",
                    "getServiceSettings", "listIcmpTypes",
                    "getIcmpTypeSettings", "getDefaultZone", "getZones",
                    "getActiveZones", "getZoneOfInterface", "getZoneOfSource"}
    THEN PK_ACTION_INFO
    ELSE IF op \in {"addChain", "removeChain", "addRule", "removeRule",
                    "removeRules", "passthrough", "removeAllPassthroughs"}
    THEN PK_ACTION_DIRECT
    ELSE IF op \in {"queryChain", "getChains", "getAllChains", "queryRule",
                    "getRules", "getAllRules", "queryPassthrough",
                    "getAllPassthroughs", "getPassthroughs"}
    THEN PK_ACTION_DIRECT_INFO
    ELSE IF op = "authorizeAll" THEN PK_ACTION_ALL
    ELSE default_polkit_auth_required

\* The authorization provider: the actions it grants a caller.
Authorizations(sender) ==
    IF sender = ":1.3" THEN {PK_ACTION_INFO} ELSE PolkitActions

\* Whether the caller of a call holds the action of the method called.
Authorized(call) == require_auth(call.op) \in Authorizations(call.sender)

\* The decorator's check: a caller without the action is turned away before
\* the method body runs.
NotAuthorized(s) ==
    Fail(s, "org.fedoraproject.slip.dbus.service.PolKit.NotAuthorizedException",
         <<>>)

(***************************************************************************)
(* The main loop: one action per D-Bus method call and per timer callback. *)
(***************************************************************************)
\* The entry of the zone settings a call with these arguments is about.
EntryId(feature, args) == IF feature = "richrule" THEN Rich_Rule(args) ELSE args

Commit(s) ==
    /\ defaultZone' = s.defaultZone
    /\ settings' = s.settings
    /\ permanent' = s.permanent
    /\ timeouts' = s.timeouts
    /\ sources' = s.sources
    /\ nextTag' = s.nextTag
    /\ lockdown' = s.lockdown
    /\ whitelist' = s.whitelist
    /\ panic' = s.panic
    /\ passthroughs' = s.passthroughs
    /\ chains' = s.chains
    /\ rules' = s.rules
    /\ store' = s.store
    /\ storeOps' = s.storeOps

Record(class, op, feature, sender, zone, args, timeout, o) ==
    [class |-> class, op |-> op, feature |-> feature, sender |-> sender,
     zone |-> zone, args |-> args, timeout |-> timeout, ret |-> o.ret,
     err |-> o.err, signals |-> o.signals, checks |-> o.checks]

\* The history of timed adds: a successful add of an entry starts its term,
\* a remove call for the entry or a reload ends it.
Promised(class, feature, zone, args, timeout, o) ==
    IF class = "add" /\ feature \in ElementKinds /\ o.err = ""
    THEN LET e == Entry(o.ret, feature, EntryId(feature, args)) IN
         {p \in promises : p.entry # e}
         \cup (IF timeout > 0 THEN {[entry |-> e, remaining |-> timeout]}
               ELSE {})
    ELSE IF class = "remove" /\ feature \in ElementKinds
    THEN {p \in promises :
            p.entry # Entry(check_zone(Cur, zone), feature,
                            EntryId(feature, args))}
    ELSE IF class = "reload" /\ o.err # COMMAND_FAILED THEN {}
    ELSE promises

\* The callers of a run: the two that are authorised for every action and,
\* except where the clients use the element kinds with the larger keys, the
\* one that is authorised for info only.
Callers ==
    IF scope \cap {"port", "protocol", "icmpblock", "forwardport", "richrule"}
       = {}
    THEN Senders
    ELSE Senders \ {":1.3"}

\* A method call dispatched by the main loop.
Call(class, op, feature, sender, zone, args, timeout, o) ==
    IF Authorized([op |-> op, sender |-> sender])
    THEN /\ Commit(o.s)
         /\ last' = Record(class, op, feature, sender, zone, args, timeout, o)
         /\ promises' = Promised(class, feature, zone, args, timeout, o)
         /\ scope' = scope
    ELSE /\ last' = Record(class, op, feature, sender, zone, args, timeout,
                           NotAuthorized(Cur))
         /\ UNCHANGED <<defaultZone, settings, permanent, timeouts, sources,
                        nextTag, lockdown, whitelist, panic, passthroughs,
                        chains, rules, store, storeOps, scope, promises>>

\* A timed add needs a source id within the bound.
CanArm(timeout) == timeout > 0 => nextTag <= MaxTimers

\* A timeout source that is due: GLib calls its function once and, as the
\* function returns nothing, destroys the source.
Due(cb) == {src \in sources : src.cb = cb /\ src.remaining = 0}

Fire(src, op, feature, o) ==
    /\ Commit([o.s EXCEPT !.sources = @ \ {src}])
    /\ last' = Record("fire", op, feature, NoSender, src.args[1],
                      IF feature = "icmpblock" THEN <<src.args[2]>>
                      ELSE Tail(src.args), 0, o)
    /\ promises' = {p \in promises :
                      ~(p.remaining = 0 /\ p.entry \notin o.s.settings)}
    /\ scope' = scope

Elapse(n) == IF n > 0 THEN n - 1 ELSE 0

\* One second passes; the sources that are due are dispatched first.
Tick ==
    /\ \A src \in sources : src.remaining > 0
    /\ sources # {} \/ \E p \in promises : p.remaining > 0
    /\ sources' = {[src EXCEPT !.remaining = Elapse(@)] : src \in sources}
    /\ promises' = {[p EXCEPT !.remaining = Elapse(@)] : p \in promises}
    /\ last' = Record("tick", "tick", "", NoSender, NoValue, <<>>, 0,
                      Ok(Cur, NoValue, <<>>, <<>>))
    /\ UNCHANGED <<defaultZone, settings, permanent, timeouts, nextTag,
                   lockdown, whitelist, panic, passthroughs, chains, rules,
                   store, storeOps, scope>>

AddService ==
    /\ "service" \in scope
    /\ \E zone \in ZoneArgs, service \in Services, timeout \in TimeoutArgs, sender \in Callers :
        /\ CanArm(timeout)
        /\ Call("add", "addService", "service", sender, zone, <<service>>,
              timeout, addService(Cur, zone, service, timeout, sender))

RemoveService ==
    /\ "service" \in scope
    /\ \E zone \in ZoneArgs, service \in Services, sender \in Callers :
        /\ Call("remove", "removeService", "service", sender, zone, <<service>>,
              0, removeService(Cur, zone, service, sender))

ExpireService ==
    \E src \in Due("disableTimedService") :
        Fire(src, "disableTimedService", "service", disableTimedService(Cur, src.args[1], src.args[2]))

AddPort ==
    /\ "port" \in scope
    /\ \E zone \in ZoneArgs, p \in Ports, timeout \in TimeoutArgs, sender \in Callers :
        /\ CanArm(timeout)
        /\ Call("add", "addPort", "port", sender, zone, p,
              timeout, addPort(Cur, zone, p[1], p[2], timeout, sender))

RemovePort ==
    /\ "port" \in scope
    /\ \E zone \in ZoneArgs, p \in Ports, sender \in Callers :
        /\ Call("remove", "removePort", "port", sender, zone, p,
              0, removePort(Cur, zone, p[1], p[2], sender))

ExpirePort ==
    \E src \in Due("disableTimedPort") :
        Fire(src, "disableTimedPort", "port", disableTimedPort(Cur, src.args[1], src.args[2], src.args[3]))

AddProtocol ==
    /\ "protocol" \in scope
    /\ \E zone \in ZoneArgs, protocol \in Protocols, timeout \in TimeoutArgs, sender \in Callers :
        /\ CanArm(timeout)
        /\ Call("add", "addProtocol", "protocol", sender, zone, <<protocol>>,
              timeout, addProtocol(Cur, zone, protocol, timeout, sender))

RemoveProtocol ==
    /\ "protocol" \in scope
    /\ \E zone \in ZoneArgs, protocol \in Protocols, sender \in Callers :
        /\ Call("remove", "removeProtocol", "protocol", sender, zone, <<protocol>>,
              0, removeProtocol(Cur, zone, protocol, sender))

ExpireProtocol ==
    \E src \in Due("disableTimedProtocol") :
        Fire(src, "disableTimedProtocol", "protocol", disableTimedProtocol(Cur, src.args[1], src.args[2]))

AddMasquerade ==
    /\ "masquerade" \in scope
    /\ \E zone \in ZoneArgs, timeout \in SignedTimeoutArgs, sender \in Callers :
        /\ CanArm(timeout)
        /\ Call("add", "addMasquerade", "masquerade", sender, zone, <<>>,
              timeout, addMasquerade(Cur, zone, timeout, sender))

RemoveMasquerade ==
    /\ "masquerade" \in scope
    /\ \E zone \in ZoneArgs, sender \in Callers :
        /\ Call("remove", "removeMasquerade", "masquerade", sender, zone, <<>>,
              0, removeMasquerade(Cur, zone, sender))

ExpireMasquerade ==
    \E src \in Due("disableTimedMasquerade") :
        Fire(src, "disableTimedMasquerade", "masquerade", disableTimedMasquerade(Cur, src.args[1]))

AddForwardPort ==
    /\ "forwardport" \in scope
    /\ \E zone \in ZoneArgs, f \in ForwardPorts, timeout \in TimeoutArgs, sender \in Callers :
        /\ CanArm(timeout)
        /\ Call("add", "addForwardPort", "forwardport", sender, zone, f,
              timeout, addForwardPort(Cur, zone, f[1], f[2], f[3], f[4], timeout, sender))

RemoveForwardPort ==
    /\ "forwardport" \in scope
    /\ \E zone \in ZoneArgs, f \in ForwardPorts, sender \in Callers :
        /\ Call("remove", "removeForwardPort", "forwardport", sender, zone, f,
              0, removeForwardPort(Cur, zone, f[1], f[2], f[3], f[4], sender))

ExpireForwardPort ==
    \E src \in Due("disable_forward_port") :
        Fire(src, "disable_forward_port", "forwardport", disable_forward_port(Cur, src.args[1], src.args[2], src.args[3], src.args[4], src.args[5]))

AddIcmpBlock ==
    /\ "icmpblock" \in scope
    /\ \E zone \in ZoneArgs, icmp \in IcmpTypes, timeout \in TimeoutArgs, sender \in Callers :
        /\ CanArm(timeout)
        /\ Call("add", "addIcmpBlock", "icmpblock", sender, zone, <<icmp>>,
              timeout, addIcmpBlock(Cur, zone, icmp, timeout, sender))

RemoveIcmpBlock ==
    /\ "icmpblock" \in scope
    /\ \E zone \in ZoneArgs, icmp \in IcmpTypes, sender \in Callers :
        /\ Call("remove", "removeIcmpBlock", "icmpblock", sender, zone, <<icmp>>,
              0, removeIcmpBlock(Cur, zone, icmp, sender))

ExpireIcmpBlock ==
    \E src \in Due("disableTimedIcmpBlock") :
        Fire(src, "disableTimedIcmpBlock", "icmpblock", disableTimedIcmpBlock(Cur, src.args[1], src.args[2], src.args[3]))

AddRichRule ==
    /\ "richrule" \in scope
    /\ \E zone \in ZoneArgs, rule \in RichRuleTexts, timeout \in TimeoutArgs, sender \in Callers :
        /\ CanArm(timeout)
        /\ Call("add", "addRichRule", "richrule", sender, zone, rule,
              timeout, addRichRule(Cur, zone, rule, timeout, sender))

RemoveRichRule ==
    /\ "richrule" \in scope
    /\ \E zone \in ZoneArgs, rule \in RichRuleTexts, sender \in Callers :
        /\ Call("remove", "removeRichRule", "richrule", sender, zone, rule,
              0, removeRichRule(Cur, zone, rule, sender))

ExpireRichRule ==
    \E src \in Due("disableTimedRichRule") :
        Fire(src, "disableTimedRichRule", "richrule", disableTimedRichRule(Cur, src.args[1], Tail(src.args)))

AddInterface ==
    /\ "interface" \in scope
    /\ \E zone \in ZoneArgs, interface \in Interfaces, sender \in Callers :
        /\ Call("add", "addInterface", "interface", sender, zone, <<interface>>,
              0, addInterface(Cur, zone, interface, sender))

ChangeZone ==
    /\ "interface" \in scope
    /\ \E zone \in ZoneArgs, interface \in Interfaces, sender \in Callers :
        /\ Call("change", "changeZone", "interface", sender, zone, <<interface>>,
              0, changeZone(Cur, zone, interface, sender))

ChangeZoneOfInterface ==
    /\ "interface" \in scope
    /\ \E zone \in ZoneArgs, interface \in Interfaces, sender \in Callers :
        /\ Call("change", "changeZoneOfInterface", "interface", sender, zone, <<interface>>,
              0, changeZoneOfInterface(Cur, zone, interface, sender))

RemoveInterface ==
    /\ "interface" \in scope
    /\ \E zone \in ZoneArgs, interface \in Interfaces, sender \in Callers :
        /\ Call("remove", "removeInterface", "interface", sender, zone, <<interface>>,
              0, removeInterface(Cur, zone, interface, sender))

AddSource ==
    /\ "source" \in scope
    /\ \E zone \in ZoneArgs, source \in SourceAddrs, sender \in Callers :
        /\ Call("add", "addSource", "source", sender, zone, <<source>>,
              0, addSource(Cur, zone, source, sender))

ChangeZoneOfSource ==
    /\ "source" \in scope
    /\ \E zone \in ZoneArgs, source \in SourceAddrs, sender \in Callers :
        /\ Call("change", "changeZoneOfSource", "source", sender, zone, <<source>>,
              0, changeZoneOfSource(Cur, zone, source, sender))

RemoveSource ==
    /\ "source" \in scope
    /\ \E zone \in ZoneArgs, source \in SourceAddrs, sender \in Callers :
        /\ Call("remove", "removeSource", "source", sender, zone, <<source>>,
              0, removeSource(Cur, zone, source, sender))

SetDefaultZone ==
    /\ \E zone \in Zones, sender \in Callers :
        /\ Call("main", "setDefaultZone", "", sender, zone, <<>>,
              0, setDefaultZone(Cur, zone, sender))

\* The reloads that fail are those of the runs without timed elements.
Injected == IF scope \cap ElementKinds = {} THEN ReloadFaults ELSE {}

Reload ==
    /\ \E sender \in Callers, fault \in Injected \cup {NoFault} :
        /\ Call("reload", "reload", "", sender, NoValue, fault,
              0, reload(Cur, sender, fault))

CompleteReload ==
    /\ \E sender \in Callers, fault \in Injected \cup {NoFault} :
        /\ Call("reload", "completeReload", "", sender, NoValue, fault,
              0, completeReload(Cur, sender, fault))

EnablePanicMode ==
    /\ "panic" \in scope
    /\ \E sender \in Callers :
        /\ Call("main", "enablePanicMode", "panic", sender, NoValue, <<>>,
              0, enablePanicMode(Cur, sender))

DisablePanicMode ==
    /\ "panic" \in scope
    /\ \E sender \in Callers :
        /\ Call("main", "disablePanicMode", "panic", sender, NoValue, <<>>,
              0, disablePanicMode(Cur, sender))

EnableLockdown ==
    /\ "policies" \in scope
    /\ \E sender \in Callers :
        /\ Call("policy", "enableLockdown", "policies", sender, NoValue, <<>>,
              0, enableLockdown(Cur, sender))

DisableLockdown ==
    /\ "policies" \in scope
    /\ \E sender \in Callers :
        /\ Call("policy", "disableLockdown", "policies", sender, NoValue, <<>>,
              0, disableLockdown(Cur, sender))

QueryLockdown ==
    /\ "policies" \in scope
    /\ \E sender \in Callers :
        /\ Call("query", "queryLockdown", "policies", sender, NoValue, <<>>,
              0, queryLockdown(Cur, sender))

AddLockdownWhitelistCommand ==
    /\ "policies" \in scope
    /\ \E command \in WhitelistArgs.command, sender \in Callers :
        /\ Call("policy", "addLockdownWhitelistCommand", "policies", sender, NoValue, <<command>>,
              0, addLockdownWhitelistCommand(Cur, command, sender))

RemoveLockdownWhitelistCommand ==
    /\ "policies" \in scope
    /\ \E command \in WhitelistArgs.command, sender \in Callers :
        /\ Call("policy", "removeLockdownWhitelistCommand", "policies", sender, NoValue, <<command>>,
              0, removeLockdownWhitelistCommand(Cur, command, sender))

QueryLockdownWhitelistCommand ==
    /\ "policies" \in scope
    /\ \E command \in WhitelistArgs.command, sender \in Callers :
        /\ Call("query", "queryLockdownWhitelistCommand", "policies", sender, NoValue, <<command>>,
              0, queryLockdownWhitelistCommand(Cur, command, sender))

GetLockdownWhitelistCommands ==
    /\ "policies" \in scope
    /\ \E sender \in Callers :
        /\ Call("query", "getLockdownWhitelistCommands", "policies", sender, NoValue, <<>>,
              0, getLockdownWhitelistCommands(Cur, sender))

AddLockdownWhitelistUid ==
    /\ "policies" \in scope
    /\ \E uid \in WhitelistArgs.uid, sender \in Callers :
        /\ Call("policy", "addLockdownWhitelistUid", "policies", sender, NoValue, <<uid>>,
              0, addLockdownWhitelistUid(Cur, uid, sender))

RemoveLockdownWhitelistUid ==
    /\ "policies" \in scope
    /\ \E uid \in WhitelistArgs.uid, sender \in Callers :
        /\ Call("policy", "removeLockdownWhitelistUid", "policies", sender, NoValue, <<uid>>,
              0, removeLockdownWhitelistUid(Cur, uid, sender))

QueryLockdownWhitelistUid ==
    /\ "policies" \in scope
    /\ \E uid \in WhitelistArgs.uid, sender \in Callers :
        /\ Call("query", "queryLockdownWhitelistUid", "policies", sender, NoValue, <<uid>>,
              0, queryLockdownWhitelistUid(Cur, uid, sender))

GetLockdownWhitelistUids ==
    /\ "policies" \in scope
    /\ \E sender \in Callers :
        /\ Call("query", "getLockdownWhitelistUids", "policies", sender, NoValue, <<>>,
              0, getLockdownWhitelistUids(Cur, sender))

AddLockdownWhitelistUser ==
    /\ "policies" \in scope
    /\ \E user \in WhitelistArgs.user, sender \in Callers :
        /\ Call("policy", "addLockdownWhitelistUser", "policies", sender, NoValue, <<user>>,
              0, addLockdownWhitelistUser(Cur, user, sender))

RemoveLockdownWhitelistUser ==
    /\ "policies" \in scope
    /\ \E user \in WhitelistArgs.user, sender \in Callers :
        /\ Call("policy", "removeLockdownWhitelistUser", "policies", sender, NoValue, <<user>>,
              0, removeLockdownWhitelistUser(Cur, user, sender))

QueryLockdownWhitelistUser ==
    /\ "policies" \in scope
    /\ \E user \in WhitelistArgs.user, sender \in Callers :
        /\ Call("query", "queryLockdownWhitelistUser", "policies", sender, NoValue, <<user>>,
              0, queryLockdownWhitelistUser(Cur, user, sender))

GetLockdownWhitelistUsers ==
    /\ "policies" \in scope
    /\ \E sender \in Callers :
        /\ Call("query", "getLockdownWhitelistUsers", "policies", sender, NoValue, <<>>,
              0, getLockdownWhitelistUsers(Cur, sender))

AddLockdownWhitelistContext ==
    /\ "policies" \in scope
    /\ \E context \in WhitelistArgs.context, sender \in Callers :
        /\ Call("policy", "addLockdownWhitelistContext", "policies", sender, NoValue, <<context>>,
              0, addLockdownWhitelistContext(Cur, context, sender))

RemoveLockdownWhitelistContext ==
    /\ "policies" \in scope
    /\ \E context \in WhitelistArgs.context, sender \in Callers :
        /\ Call("policy", "removeLockdownWhitelistContext", "policies", sender, NoValue, <<context>>,
              0, removeLockdownWhitelistContext(Cur, context, sender))

QueryLockdownWhitelistContext ==
    /\ "policies" \in scope
    /\ \E context \in WhitelistArgs.context, sender \in Callers :
        /\ Call("query", "queryLockdownWhitelistContext", "policies", sender, NoValue, <<context>>,
              0, queryLockdownWhitelistContext(Cur, context, sender))

GetLockdownWhitelistContexts ==
    /\ "policies" \in scope
    /\ \E sender \in Callers :
        /\ Call("query", "getLockdownWhitelistContexts", "policies", sender, NoValue, <<>>,
              0, getLockdownWhitelistContexts(Cur, sender))

AddPassthrough ==
    /\ "direct" \in scope
    /\ \E pt \in PassthroughArgs, sender \in Callers :
        /\ Call("direct", "addPassthrough", "direct", sender, NoValue, pt,
              0, addPassthrough(Cur, pt[1], pt[2], sender))

RemovePassthrough ==
    /\ "direct" \in scope
    /\ \E pt \in PassthroughArgs, sender \in Callers :
        /\ Call("direct", "removePassthrough", "direct", sender, NoValue, pt,
              0, removePassthrough(Cur, pt[1], pt[2], sender))

RemoveAllPassthroughs ==
    /\ "direct" \in scope
    /\ \E sender \in Callers :
        /\ Call("direct", "removeAllPassthroughs", "direct", sender, NoValue, <<>>,
              0, removeAllPassthroughs(Cur, sender))

AddChain ==
    /\ "chains" \in scope
    /\ \E c \in ChainArgs, sender \in Callers :
        /\ Call("direct", "addChain", "direct", sender, NoValue, c,
              0, addChain(Cur, c[1], c[2], c[3], sender))

RemoveChain ==
    /\ "chains" \in scope
    /\ \E c \in ChainArgs, sender \in Callers :
        /\ Call("direct", "removeChain", "direct", sender, NoValue, c,
              0, removeChain(Cur, c[1], c[2], c[3], sender))

AddRule ==
    /\ "chains" \in scope
    /\ \E r \in RuleArgs, sender \in Callers :
        /\ Call("direct", "addRule", "direct", sender, NoValue, r,
              0, addRule(Cur, r[1], r[2], r[3], r[4], r[5], sender))

RemoveRule ==
    /\ "chains" \in scope
    /\ \E r \in RuleArgs, sender \in Callers :
        /\ Call("direct", "removeRule", "direct", sender, NoValue, r,
              0, removeRule(Cur, r[1], r[2], r[3], r[4], r[5], sender))

GetProperty ==
    /\ "properties" \in scope
    /\ \E i \in InterfaceNames, prop \in PropertyNames, sender \in Callers :
        /\ Call("property", "Get", "properties", sender, NoValue, <<i, prop>>,
              0, Get(Cur, i, prop, sender))

GetAllProperties ==
    /\ "properties" \in scope
    /\ \E i \in InterfaceNames, sender \in Callers :
        /\ Call("property", "GetAll", "properties", sender, NoValue, <<i>>,
              0, GetAll(Cur, i, sender))

SetProperty ==
    /\ "properties" \in scope
    /\ \E i \in InterfaceNames, prop \in PropertyNames,
          value \in PropertyValues, sender \in Callers :
        /\ Call("property", "Set", "properties", sender, NoValue,
              <<i, prop, value>>, 0, Set(Cur, i, prop, value, sender))

GetActiveZones ==
    /\ "interface" \in scope
    /\ \E sender \in Callers :
        /\ Call("query", "getActiveZones", "zone", sender, NoValue, <<>>,
              0, getActiveZones(Cur, sender))

RuntimeToPermanent ==
    /\ "config" \in scope
    /\ \E sender \in Callers, fault \in Faults \cup {NoFault} :
        /\ Call("main", "runtimeToPermanent", "config", sender, NoValue,
              fault, 0, runtimeToPermanent(Cur, sender, fault))

RemoveRules ==
    /\ "chains" \in scope
    /\ \E c \in ChainArgs, sender \in Callers :
        /\ Call("direct", "removeRules", "direct", sender, NoValue, c,
              0, removeRules(Cur, c[1], c[2], c[3], sender))

(***************************************************************************)
(* The daemon after start(): the runtime settings are those of the         *)
(* persistent store, no timer is armed, panic mode is off; lockdown is as  *)
(* the configuration sets it.                                              *)
(***************************************************************************)
NoCall ==
    Record("start", "start", "", NoSender, NoValue, <<>>, 0,
           Ok(NoValue, NoValue, <<>>, <<>>))

Start(profiles) ==
    /\ defaultZone = "public"
    /\ permanent = {}
    /\ settings = permanent
    /\ timeouts = {}
    /\ sources = {}
    /\ nextTag = 1
    /\ lockdown \in BOOLEAN
    /\ whitelist = ConfiguredWhitelist
    /\ panic = FALSE
    /\ passthroughs = <<>>
    /\ chains = {}
    /\ rules = <<>>
    /\ store = StoreAtStart
    /\ storeOps = <<>>
    /\ scope \in profiles
    /\ promises = {}
    /\ last = NoCall

Init == Start(Profiles)

Next ==
    \/ AddService
    \/ RemoveService
    \/ AddPort
    \/ RemovePort
    \/ AddProtocol
    \/ RemoveProtocol
    \/ AddMasquerade
    \/ RemoveMasquerade
    \/ AddForwardPort
    \/ RemoveForwardPort
    \/ AddIcmpBlock
    \/ RemoveIcmpBlock
    \/ AddRichRule
    \/ RemoveRichRule
    \/ AddInterface
    \/ ChangeZone
    \/ ChangeZoneOfInterface
    \/ RemoveInterface
    \/ AddSource
    \/ ChangeZoneOfSource
    \/ RemoveSource
    \/ SetDefaultZone
    \/ Reload
    \/ CompleteReload
    \/ EnablePanicMode
    \/ DisablePanicMode
    \/ EnableLockdown
    \/ DisableLockdown
    \/ QueryLockdown
    \/ AddLockdownWhitelistCommand
    \/ RemoveLockdownWhitelistCommand
    \/ QueryLockdownWhitelistCommand
    \/ GetLockdownWhitelistCommands
    \/ AddLockdownWhitelistUid
    \/ RemoveLockdownWhitelistUid
    \/ QueryLockdownWhitelistUid
    \/ GetLockdownWhitelistUids
    \/ AddLockdownWhitelistUser
    \/ RemoveLockdownWhitelistUser
    \/ QueryLockdownWhitelistUser
    \/ GetLockdownWhitelistUsers
    \/ AddLockdownWhitelistContext
    \/ RemoveLockdownWhitelistContext
    \/ QueryLockdownWhitelistContext
    \/ GetLockdownWhitelistContexts
    \/ AddPassthrough
    \/ RemovePassthrough
    \/ RemoveAllPassthroughs
    \/ AddChain
    \/ RemoveChain
    \/ AddRule
    \/ RemoveRule
    \/ RemoveRules
    \/ GetProperty
    \/ GetAllProperties
    \/ SetProperty
    \/ GetActiveZones
    \/ RuntimeToPermanent
    \/ ExpireService
    \/ ExpirePort
    \/ ExpireProtocol
    \/ ExpireMasquerade
    \/ ExpireForwardPort
    \/ ExpireIcmpBlock
    \/ ExpireRichRule
    \/ Tick

Spec == Init /\ [][Next]_vars

\* Clients that use services and protocols, whose names are drawn from one
\* set of strings; no reload.
InitNames == Start({{"service", "protocol"}})

NextNames ==
    \/ AddService
    \/ RemoveService
    \/ ExpireService
    \/ AddProtocol
    \/ RemoveProtocol
    \/ ExpireProtocol
    \/ Tick

NamesSpec == InitNames /\ [][NextNames]_vars

\* Clients that enable protocols, with and without a timeout, and make the
\* runtime configuration permanent; no reload.
InitPersist == Start({{"config", "protocol"}})

NextPersist ==
    \/ AddProtocol
    \/ RemoveProtocol
    \/ ExpireProtocol
    \/ RuntimeToPermanent
    \/ Tick

PersistSpec == InitPersist /\ [][NextPersist]_vars

\* Clients that use no timed zone element: bindings, policies, the direct
\* interface, panic mode, properties and the persistent store.
UntimedProfiles == {s \in Profiles : s \cap ElementKinds = {}}
InitUntimed == Start(UntimedProfiles)

NextUntimed ==
    \/ AddInterface
    \/ ChangeZone
    \/ ChangeZoneOfInterface
    \/ RemoveInterface
    \/ AddSource
    \/ ChangeZoneOfSource
    \/ RemoveSource
    \/ SetDefaultZone
    \/ Reload
    \/ CompleteReload
    \/ EnablePanicMode
    \/ DisablePanicMode
    \/ EnableLockdown
    \/ DisableLockdown
    \/ QueryLockdown
    \/ AddLockdownWhitelistCommand
    \/ RemoveLockdownWhitelistCommand
    \/ QueryLockdownWhitelistCommand
    \/ GetLockdownWhitelistCommands
    \/ AddLockdownWhitelistUid
    \/ RemoveLockdownWhitelistUid
    \/ QueryLockdownWhitelistUid
    \/ GetLockdownWhitelistUids
    \/ AddLockdownWhitelistUser
    \/ RemoveLockdownWhitelistUser
    \/ QueryLockdownWhitelistUser
    \/ GetLockdownWhitelistUsers
    \/ AddLockdownWhitelistContext
    \/ RemoveLockdownWhitelistContext
    \/ QueryLockdownWhitelistContext
    \/ GetLockdownWhitelistContexts
    \/ AddPassthrough
    \/ RemovePassthrough
    \/ RemoveAllPassthroughs
    \/ AddChain
    \/ RemoveChain
    \/ AddRule
    \/ RemoveRule
    \/ RemoveRules
    \/ GetProperty
    \/ GetAllProperties
    \/ SetProperty
    \/ GetActiveZones
    \/ RuntimeToPermanent

UntimedSpec == InitUntimed /\ [][NextUntimed]_vars

(***************************************************************************)
(* Timed entries.                                                          *)
(***************************************************************************)
\* The timeout sources whose callback, when dispatched, asks the core to
\* remove this entry.
Targeting(e) ==
    {src \in sources :
        /\ src.cb = (CASE e.kind = "service" -> "disableTimedService"
                       [] e.kind = "port" -> "disableTimedPort"
                       [] e.kind = "protocol" -> "disableTimedProtocol"
                       [] e.kind = "masquerade" -> "disableTimedMasquerade"
                       [] e.kind = "forwardport" -> "disable_forward_port"
                       [] e.kind = "icmpblock" -> "disableTimedIcmpBlock"
                       [] e.kind = "richrule" -> "disableTimedRichRule")
        /\ src.args[1] = e.zone
        /\ e.id = (IF e.kind = "icmpblock" THEN <<src.args[2]>>
                   ELSE EntryId(e.kind, Tail(src.args)))}

\* What query<Element>(zone, ...) returns for this entry.
Enabled(e) == zone_query(Cur, e.zone, e.kind, e.id)

\* C1: no premature expiry.  An entry of any timed kind that was added with
\* a timeout T > 0 stays enabled (its query returns true) until T has
\* elapsed, as long as no remove of the entry and no reload followed the
\* add, whatever was done to the same entry before the add.
C1_NoPrematureExpiry ==
    \A p \in promises : p.remaining > 0 => Enabled(p.entry)

\* C2: timed entries eventually expire.  While an entry added with a timeout
\* is still enabled and neither a remove of it nor a reload followed the
\* add, the timer that is to remove it is still armed, whatever was done to
\* other entries of the zone.
C2_TimedEntriesExpire ==
    \A p \in promises : Enabled(p.entry) => Targeting(p.entry) # {}

\* The keys of the timer table that name this entry.
KeysOf(e) ==
    CASE e.kind \in {"port", "forwardport"} -> {PyTuple(e.id)}
      [] e.kind = "masquerade" -> {PyStr(<<"masquerade">>)}
      [] e.kind = "richrule" ->
            {PyStr(text) : text \in {x \in RichRuleTexts : Rich_Rule(x) = e.id}}
      [] OTHER -> {PyStr(e.id)}

\* C3: a successful manual remove of an entry cancels the timer armed by its
\* timed add.  After the remove no timer that would remove the entry is
\* armed and the timer table holds no entry for it.
C3_RemoveCancelsTimer ==
    (last.class = "remove" /\ last.feature \in ElementKinds /\ last.err = "")
    => LET e == Entry(last.ret, last.feature,
                      EntryId(last.feature, last.args)) IN
       /\ Targeting(e) = {}
       /\ \A t \in timeouts : ~(t.zone = e.zone /\ t.key \in KeysOf(e))

\* C4: reload cancels all timers.  After reload() or completeReload() the
\* timer table is empty and no timer armed before the reload is still armed.
C4_ReloadCancelsTimers ==
    (last.class = "reload" /\ last.err = "")
    => timeouts = {} /\ sources = {}

(***************************************************************************)
(* Lockdown.                                                               *)
(***************************************************************************)
ZoneMutation ==
    /\ last.class \in {"add", "remove", "change"}
    /\ last.feature \in ElementKinds \cup BindingKinds

\* Whether the identity of a caller matches an entry of the whitelist.
Whitelisted(sender) ==
    \/ context_of_sender(sender) \in whitelist.context
    \/ uid_of_sender(sender) \in whitelist.uid
    \/ user_of_uid(uid_of_sender(sender)) \in whitelist.user
    \/ command_of_sender(sender) \in whitelist.command

\* C5: lockdown gates the zone mutators.  With lockdown enabled, every
\* mutating operation of the zone interface, rich rules included, is denied
\* with ACCESS_DENIED for a caller that matches no whitelist entry and is not
\* denied for a caller that matches one (the callers being those that hold
\* the polkit action of the operation).
C5_LockdownGatesZoneMutators ==
    (ZoneMutation /\ lockdown /\ Authorized(last))
    => IF Whitelisted(last.sender) THEN last.err # "ACCESS_DENIED"
       ELSE last.err = "ACCESS_DENIED"

\* The identity of a caller, in the order of WhitelistKinds, and the kinds of
\* the whitelist (before the call) that hold it.
IdentityOf(sender) ==
    <<context_of_sender(sender), uid_of_sender(sender),
      user_of_uid(uid_of_sender(sender)), command_of_sender(sender)>>
Matching(sender) ==
    {i \in 1 .. 4 : IdentityOf(sender)[i] \in whitelist[WhitelistKinds[i]]}
FirstOf(m) == CHOOSE i \in m : \A j \in m : i <= j

\* What the order context, uid, user, command asks of one lockdown check
\* made by a caller with this set of matching kinds.
InOrder(c, m) ==
    IF ~lockdown THEN c.ok
    ELSE IF m = {} THEN ~c.ok /\ c.consulted = WhitelistKinds
    ELSE c.ok /\ c.consulted = SubSeq(WhitelistKinds, 1, FirstOf(m))

ProgramState ==
    <<defaultZone, settings, permanent, timeouts, sources, nextTag, lockdown,
      whitelist, panic, passthroughs, chains, rules, store>>

\* C7: a denial comes before any side effect.  A call that fails with
\* ACCESS_DENIED leaves the zone settings, the timer table and its sources,
\* lockdown, whitelist, panic mode and everything else as they were and
\* emits no signal.
C7_DenialBeforeSideEffect ==
    [][last'.err = "ACCESS_DENIED"
         => UNCHANGED ProgramState /\ last'.signals = <<>>]_vars

\* A timed add was denied while there were settings and timers to keep.
C7_Witness ==
    /\ last.err = "ACCESS_DENIED"
    /\ last.class = "add"
    /\ last.timeout > 0
    /\ settings # {}
    /\ timeouts # {}

LockdownQueries ==
    {"queryLockdown", "queryLockdownWhitelistCommand",
     "queryLockdownWhitelistUid", "queryLockdownWhitelistUser",
     "queryLockdownWhitelistContext", "getLockdownWhitelistCommands",
     "getLockdownWhitelistUids", "getLockdownWhitelistUsers",
     "getLockdownWhitelistContexts"}

\* What a lockdown query is to return in the current state.
Answer(op, args) ==
    CASE op = "queryLockdown" -> lockdown
      [] op = "queryLockdownWhitelistCommand" -> args[1] \in whitelist.command
      [] op = "queryLockdownWhitelistUid" -> args[1] \in whitelist.uid
      [] op = "queryLockdownWhitelistUser" -> args[1] \in whitelist.user
      [] op = "queryLockdownWhitelistContext" -> args[1] \in whitelist.context
      [] op = "getLockdownWhitelistCommands" -> whitelist.command
      [] op = "getLockdownWhitelistUids" -> whitelist.uid
      [] op = "getLockdownWhitelistUsers" -> whitelist.user
      [] op = "getLockdownWhitelistContexts" -> whitelist.context

\* C8: the lockdown queries are not gated.  queryLockdown and the whitelist
\* query and list operations make no lockdown check, return their result to
\* every caller that holds their polkit action whether lockdown is enabled
\* or not, and change no state.
C8_LockdownQueriesUngated ==
    [][last'.op \in LockdownQueries /\ Authorized(last')
         => /\ UNCHANGED ProgramState
            /\ last'.err = ""
            /\ last'.checks = <<>>
            /\ last'.signals = <<>>
            /\ last'.ret = Answer(last'.op, last'.args)]_vars

\* A caller that matches no whitelist entry was answered under lockdown.
C8_Witness ==
    /\ lockdown
    /\ ~Whitelisted(last.sender)
    /\ last.op = "queryLockdown"
    /\ last.sender \in Senders
    /\ last.ret = TRUE

(***************************************************************************)
(* Zone resolution.                                                        *)
(***************************************************************************)
\* Two outcomes with the same zone settings, timer table, return value,
\* error and signals.
SameEffect(a, b) ==
    /\ a.s.settings = b.s.settings
    /\ a.s.timeouts = b.s.timeouts
    /\ a.ret = b.ret
    /\ a.err = b.err
    /\ a.signals = b.signals

\* Calling a zone element mutator, addInterface, addSource or a changeZone
\* operation in the current state gives the same with z1 as with z2.
SameForElements(z1, z2) ==
    \A sender \in Senders :
      /\ \A timeout \in TimeoutArgs :
           /\ \A x \in Services :
                SameEffect(addService(Cur, z1, x, timeout, sender),
                           addService(Cur, z2, x, timeout, sender))
           /\ \A x \in Ports :
                SameEffect(addPort(Cur, z1, x[1], x[2], timeout, sender),
                           addPort(Cur, z2, x[1], x[2], timeout, sender))
           /\ \A x \in Protocols :
                SameEffect(addProtocol(Cur, z1, x, timeout, sender),
                           addProtocol(Cur, z2, x, timeout, sender))
           /\ SameEffect(addMasquerade(Cur, z1, timeout, sender),
                         addMasquerade(Cur, z2, timeout, sender))
           /\ \A x \in ForwardPorts :
                SameEffect(
                  addForwardPort(Cur, z1, x[1], x[2], x[3], x[4], timeout,
                                 sender),
                  addForwardPort(Cur, z2, x[1], x[2], x[3], x[4], timeout,
                                 sender))
           /\ \A x \in IcmpTypes :
                SameEffect(addIcmpBlock(Cur, z1, x, timeout, sender),
                           addIcmpBlock(Cur, z2, x, timeout, sender))
           /\ \A x \in RichRuleTexts :
                SameEffect(addRichRule(Cur, z1, x, timeout, sender),
                           addRichRule(Cur, z2, x, timeout, sender))
      /\ \A x \in Services :
           SameEffect(removeService(Cur, z1, x, sender),
                      removeService(Cur, z2, x, sender))
      /\ \A x \in Ports :
           SameEffect(removePort(Cur, z1, x[1], x[2], sender),
                      removePort(Cur, z2, x[1], x[2], sender))
      /\ \A x \in Protocols :
           SameEffect(removeProtocol(Cur, z1, x, sender),
                      removeProtocol(Cur, z2, x, sender))
      /\ SameEffect(removeMasquerade(Cur, z1, sender),
                    removeMasquerade(Cur, z2, sender))
      /\ \A x \in ForwardPorts :
           SameEffect(
             removeForwardPort(Cur, z1, x[1], x[2], x[3], x[4], sender),
             removeForwardPort(Cur, z2, x[1], x[2], x[3], x[4], sender))
      /\ \A x \in IcmpTypes :
           SameEffect(removeIcmpBlock(Cur, z1, x, sender),
                      removeIcmpBlock(Cur, z2, x, sender))
      /\ \A x \in RichRuleTexts :
           SameEffect(removeRichRule(Cur, z1, x, sender),
                      removeRichRule(Cur, z2, x, sender))
      /\ \A x \in Interfaces :
           /\ SameEffect(addInterface(Cur, z1, x, sender),
                         addInterface(Cur, z2, x, sender))
           /\ SameEffect(changeZone(Cur, z1, x, sender),
                         changeZone(Cur, z2, x, sender))
           /\ SameEffect(changeZoneOfInterface(Cur, z1, x, sender),
                         changeZoneOfInterface(Cur, z2, x, sender))
      /\ \A x \in SourceAddrs :
           /\ SameEffect(addSource(Cur, z1, x, sender),
                         addSource(Cur, z2, x, sender))
           /\ SameEffect(changeZoneOfSource(Cur, z1, x, sender),
                         changeZoneOfSource(Cur, z2, x, sender))

\* The same for removeInterface and removeSource.
SameForUnbinding(z1, z2) ==
    \A sender \in Senders :
      /\ \A x \in Interfaces :
           SameEffect(removeInterface(Cur, z1, x, sender),
                      removeInterface(Cur, z2, x, sender))
      /\ \A x \in SourceAddrs :
           SameEffect(removeSource(Cur, z1, x, sender),
                      removeSource(Cur, z2, x, sender))

RawKey(feature, args) ==
    CASE feature \in {"port", "forwardport"} -> PyTuple(args)
      [] feature = "masquerade" -> PyStr(<<"masquerade">>)
      [] OTHER -> PyStr(args)

\* C10: for every zone mutator the value returned, the zone of every signal
\* emitted and the zone under which the timer is armed or cancelled are one
\* resolved zone name, never the empty input; no timer is ever recorded
\* under the empty name.
C10_ResolvedZoneEverywhere ==
    /\ \A t \in timeouts : t.zone \in Zones
    /\ (ZoneMutation /\ last.err = "")
       => /\ last.ret \in Zones
          /\ last.zone # "" => last.ret = last.zone
          /\ (last.zone = "" /\ last.class # "remove") => last.ret = defaultZone
          /\ last.signals # <<>>
          /\ \A i \in DOMAIN last.signals : last.signals[i].args[1] = last.ret
          /\ (last.class = "add" /\ last.timeout > 0)
             => \E t \in timeouts :
                  /\ t.zone = last.ret
                  /\ t.key = RawKey(last.feature, last.args)
                  /\ \E src \in sources :
                       src.tag = t.tag /\ src.args[1] = last.ret
          /\ (last.class = "remove" /\ last.feature \in ElementKinds)
             => \A t \in timeouts :
                  ~(t.zone = last.ret
                    /\ t.key = RawKey(last.feature, last.args))

\* A service of the default zone that had been added with a timeout was
\* removed with "", and no timer is left.
C10_Witness ==
    /\ last.op = "removeService"
    /\ last.zone = ""
    /\ last.err = ""
    /\ last.ret = defaultZone
    /\ timeouts = {}
    /\ sources = {}
    /\ nextTag > 1

(***************************************************************************)
(* Signals.                                                                *)
(***************************************************************************)
\* The signal of each operation that adds or removes one entry.
SignalOf ==
    [addService |-> "ServiceAdded", removeService |-> "ServiceRemoved",
     addPort |-> "PortAdded", removePort |-> "PortRemoved",
     addProtocol |-> "ProtocolAdded", removeProtocol |-> "ProtocolRemoved",
     addMasquerade |-> "MasqueradeAdded",
     removeMasquerade |-> "MasqueradeRemoved",
     addForwardPort |-> "ForwardPortAdded",
     removeForwardPort |-> "ForwardPortRemoved",
     addIcmpBlock |-> "IcmpBlockAdded", removeIcmpBlock |-> "IcmpBlockRemoved",
     addRichRule |-> "RichRuleAdded", removeRichRule |-> "RichRuleRemoved",
     addInterface |-> "InterfaceAdded", removeInterface |-> "InterfaceRemoved",
     addSource |-> "SourceAdded", removeSource |-> "SourceRemoved",
     addChain |-> "ChainAdded", removeChain |-> "ChainRemoved",
     addRule |-> "RuleAdded", removeRule |-> "RuleRemoved",
     addPassthrough |-> "PassthroughAdded",
     removePassthrough |-> "PassthroughRemoved",
     addLockdownWhitelistCommand |-> "LockdownWhitelistCommandAdded",
     removeLockdownWhitelistCommand |-> "LockdownWhitelistCommandRemoved",
     addLockdownWhitelistUid |-> "LockdownWhitelistUidAdded",
     removeLockdownWhitelistUid |-> "LockdownWhitelistUidRemoved",
     addLockdownWhitelistUser |-> "LockdownWhitelistUserAdded",
     removeLockdownWhitelistUser |-> "LockdownWhitelistUserRemoved",
     addLockdownWhitelistContext |-> "LockdownWhitelistContextAdded",
     removeLockdownWhitelistContext |-> "LockdownWhitelistContextRemoved"]

\* The arguments of a call after resolution: the zone the call returned in
\* place of the zone it was given, and the timeout of an add of an element.
Resolved(call) ==
    LET given == IF call.feature = "richrule" THEN <<call.args>> ELSE call.args
    IN  IF call.feature \in ElementKinds
        THEN <<call.ret>> \o given
             \o (IF call.class = "add" THEN <<call.timeout>> ELSE <<>>)
        ELSE IF call.feature \in BindingKinds THEN <<call.ret>> \o given
        ELSE given

\* C11: signal faithfulness.  Every successful add or remove of one entry (a
\* zone element, an interface or source, a direct chain, rule or tracked
\* passthrough, a lockdown whitelist entry) emits exactly one Added or
\* Removed signal of its kind whose payload is the arguments after
\* resolution; an add or remove that fails emits no signal.
C11_SignalFaithfulness ==
    last.op \in DOMAIN SignalOf
    => IF last.err = ""
       THEN last.signals = <<Signal(SignalOf[last.op], Resolved(last))>>
       ELSE last.signals = <<>>

\* A forward port was added to the default zone by a call that named no
\* zone.
C11_Witness ==
    /\ last.op = "addForwardPort"
    /\ last.zone = ""
    /\ last.err = ""
    /\ last.signals[1].args[1] = defaultZone

(***************************************************************************)
(* Interfaces and sources.                                                 *)
(***************************************************************************)
\* The zones an interface or a source is bound to.
ZonesOf(kind, id) == {z \in Zones : Entry(z, kind, <<id>>) \in settings}

BoundOnce ==
    /\ \A i \in Interfaces : Cardinality(ZonesOf("interface", i)) <= 1
    /\ \A a \in SourceAddrs : Cardinality(ZonesOf("source", a)) <= 1

\* A call that got past the polkit check and the lockdown check.
Admitted(call) ==
    /\ Authorized(call)
    /\ call.err # "ACCESS_DENIED"

\* C12: interface and source uniqueness.  After any sequence of
\* addInterface, removeInterface, changeZone, changeZoneOfInterface,
\* addSource, removeSource, changeZoneOfSource, setDefaultZone and reload
\* every interface and every source is bound to at most one zone, and an
\* add of an interface or source that is bound to another zone fails with
\* ZONE_CONFLICT and changes nothing.
C12_BoundToOneZone ==
    [][scope = BindingKinds
       => /\ BoundOnce'
          /\ (/\ last'.op \in {"addInterface", "addSource"}
              /\ Admitted(last')
              /\ ZonesOf(last'.feature, last'.args[1])
                   \notin {{}, {check_zone(Cur, last'.zone)}})
             => /\ last'.err = "ZONE_CONFLICT"
                /\ UNCHANGED ProgramState]_vars

\* An interface bound to one zone was refused to the other.
C12_Witness ==
    /\ last.op = "addInterface"
    /\ last.err = "ZONE_CONFLICT"
    /\ \E i \in Interfaces : Cardinality(ZonesOf("interface", i)) = 1

(***************************************************************************)
(* Polkit actions.                                                         *)
(***************************************************************************)
DirectMutators ==
    {"addChain", "removeChain", "addRule", "removeRule", "removeRules",
     "passthrough", "addPassthrough", "removePassthrough",
     "removeAllPassthroughs"}
PolicyMutators ==
    {"enableLockdown", "disableLockdown"}
    \cup {op \in DOMAIN SignalOf : SignalOf[op] \in
            {"LockdownWhitelistCommandAdded", "LockdownWhitelistCommandRemoved",
             "LockdownWhitelistUidAdded", "LockdownWhitelistUidRemoved",
             "LockdownWhitelistUserAdded", "LockdownWhitelistUserRemoved",
             "LockdownWhitelistContextAdded",
             "LockdownWhitelistContextRemoved"}}

\* C13: every mutating entry point is gated by an action other than info.
\* The zone and main mutators require the config action, every direct
\* mutator (addChain, removeChain, addRule, removeRule, removeRules,
\* passthrough, addPassthrough, removePassthrough, removeAllPassthroughs)
\* the direct action, the lockdown-policy mutators the policies action, and
\* a call of a caller that is authorised for info only changes no state.
C13_MutatorsGated ==
    [][/\ last'.op \in DirectMutators
          => require_auth(last'.op) = PK_ACTION_DIRECT
       /\ last'.op \in PolicyMutators
          => require_auth(last'.op) = PK_ACTION_POLICIES
       /\ last'.class \in {"add", "remove", "change", "main", "reload"}
          => require_auth(last'.op) = PK_ACTION_CONFIG
       /\ Authorizations(last'.sender) = {PK_ACTION_INFO}
          => UNCHANGED ProgramState]_vars

(***************************************************************************)
(* runtimeToPermanent.                                                     *)
(***************************************************************************)
\* The entities of the runtime in the order of the claim: services, icmp
\* types, zones, the direct configuration, the lockdown whitelist.
Walk ==
    <<<<"service", "gre">>, <<"service", "ssh">>,
      <<"icmptype", "echo-request">>, <<"zone", "public">>,
      <<"zone", "work">>, <<"direct", "">>, <<"policies", "">> >>

\* How the message of RT_TO_PERM_FAILED names an entity.
NameOf(entity) ==
    CASE entity[1] = "direct" -> "direct configuration"
      [] entity[1] = "policies" -> "policies configuration"
      [] OTHER -> entity[1] \o " '" \o entity[2] \o "'"
Names(err, entity) ==
    err \in {RT_TO_PERM_FAILED(NameOf(entity) \o sep \o StoreError) :
                sep \in {": ", " : "}}

\* The entities the calls on the store were about, in the order of the calls.
RECURSIVE Attempted(_)
Attempted(ops) ==
    IF ops = <<>> THEN <<>>
    ELSE LET rest == Attempted(Tail(ops))
             e == <<Head(ops)[1], Head(ops)[2]>> IN
         IF rest # <<>> /\ Head(rest) = e THEN rest ELSE <<e>> \o rest

\* C14: runtimeToPermanent walks the categories in the order services, icmp
\* types, zones, direct configuration, lockdown whitelist.  The first
\* failure is reported as RT_TO_PERM_FAILED with a message that names the
\* failing entity; by then every entity before it has been attempted and
\* none after it is attempted.  A call that does not fail attempts them all.
C14_WalkOrder ==
    (last.op = "runtimeToPermanent" /\ Authorized(last))
    => IF last.err = "" THEN Attempted(storeOps) = Walk
       ELSE \E k \in 1 .. Len(Walk) :
              /\ Attempted(storeOps) = SubSeq(Walk, 1, k)
              /\ Names(last.err, Walk[k])
              /\ last.args = Walk[k]

\* The store failed on the second zone after the first zone had been
\* updated.
C14_Witness ==
    /\ last.op = "runtimeToPermanent"
    /\ Names(last.err, <<"zone", "work">>)
    /\ <<"zone", "public", "update">> = storeOps[Len(storeOps) - 1]

\* The calls of a sequence of store calls that create, update or set.
Writes(ops) ==
    {i \in DOMAIN ops : ops[i][3] \in {"add", "update", "setLockdownWhitelist"}}

\* C15: runtimeToPermanent is idempotent.  Right after a call that
\* succeeded, with no change of the runtime in between, a second call
\* succeeds, performs no create, update or set operation on the store for
\* any service, icmp type, zone, the direct configuration or the lockdown
\* whitelist, and leaves the store as it was.
C15_Idempotent ==
    (last.op = "runtimeToPermanent" /\ last.err = "")
    => \A sender \in Senders \ {":1.3"} :
         LET second == runtimeToPermanent(Cur, sender, NoFault) IN
         /\ second.err = ""
         /\ Writes(second.s.storeOps) = {}
         /\ second.s.store = store
         /\ second.s.permanent = permanent

(***************************************************************************)
(* Tracked passthroughs.                                                   *)
(***************************************************************************)
\* C16: removeAllPassthroughs removes the tracked passthroughs in reverse
\* insertion order and emits one PassthroughRemoved per passthrough, in that
\* order; when it succeeds getAllPassthroughs() is empty.
C16_ReverseRemoval ==
    [][(last'.op = "removeAllPassthroughs" /\ Authorized(last'))
       => /\ last'.signals =
               [i \in 1 .. Len(passthroughs) |->
                  Signal("PassthroughRemoved",
                         passthroughs[Len(passthroughs) + 1 - i])]
          /\ last'.err = "" => getAllPassthroughs(Cur, NoSender)'.ret = <<>>]_vars

\* Two passthroughs were removed by one call, the later one first.
C16_Witness ==
    /\ last.op = "removeAllPassthroughs"
    /\ last.err = ""
    /\ Len(last.signals) = 2
    /\ last.signals[1].args = <<"ipv4", <<"-A", "A", "-j", "ACCEPT">> >>
    /\ passthroughs = <<>>

(***************************************************************************)
(* The deprecated changeZone.                                              *)
(***************************************************************************)
\* The signals of a call that have this name.
Emitted(call, name) ==
    {i \in DOMAIN call.signals : call.signals[i].name = name}

\* C17: compatibility aliasing.  Every successful changeZoneOfInterface, and
\* every successful call of its alias changeZone, emits exactly one
\* ZoneOfInterfaceChanged and exactly one deprecated ZoneChanged signal, both
\* with the payload (resolved zone, interface), and changeZone returns the
\* value, the state and the signals changeZoneOfInterface returns for the
\* same arguments.
C17_ChangeZoneAlias ==
    /\ (last.op \in {"changeZone", "changeZoneOfInterface"} /\ last.err = "")
       => /\ Cardinality(Emitted(last, "ZoneOfInterfaceChanged")) = 1
          /\ Cardinality(Emitted(last, "ZoneChanged")) = 1
          /\ Len(last.signals) = 2
          /\ \A i \in DOMAIN last.signals :
                last.signals[i].args = <<last.ret>> \o last.args
          /\ last.ret = check_zone(Cur, last.zone)
          /\ Entry(last.ret, "interface", last.args) \in settings
    /\ \A zone \in ZoneArgs, interface \in Interfaces, sender \in Senders :
         changeZone(Cur, zone, interface, sender)
         = changeZoneOfInterface(Cur, zone, interface, sender)

\* The deprecated call moved an interface to the default zone.
C17_Witness ==
    /\ last.op = "changeZone"
    /\ last.zone = ""
    /\ last.err = ""
    /\ last.ret = defaultZone
    /\ Len(last.signals) = 2

(***************************************************************************)
(* Properties.                                                             *)
(***************************************************************************)
NotImplemented(interface_name) ==
    UnknownInterface \o ": FirewallD does not implement " \o interface_name
NotSettable(property_name) ==
    AccessDenied \o ": Property '" \o property_name \o "' is not settable"
NotExported(property_name) ==
    AccessDenied \o ": Property '" \o property_name
    \o "' isn't exported (or may not exist)"

\* C18: Set on any property is rejected.  For every interface name,
\* property name, value and caller (of those that hold the config action),
\* Set returns an error (UnknownInterface when the interface is not the main
\* interface, otherwise a 'not settable' error) and leaves everything
\* unchanged.
C18_SetRejected ==
    [][(last'.op = "Set" /\ Authorized(last'))
       => /\ last'.err = IF last'.args[1] # DBUS_INTERFACE
                         THEN NotImplemented(last'.args[1])
                         ELSE NotSettable(last'.args[2])
          /\ UNCHANGED ProgramState]_vars

\* C18, amended: a Set call that is not turned away by the polkit check or by
\* the lockdown check returns UnknownInterface when the interface is not the
\* main interface and otherwise a 'not settable' error; a Set call that is
\* turned away returns the error of that check; in every case Set returns an
\* error and leaves everything unchanged.
C18_SetRejectedOrDenied ==
    [][last'.op = "Set"
       => /\ last'.err =
               IF ~Authorized(last') THEN NotAuthorized(Cur).err
               ELSE IF lockdown /\ ~Whitelisted(last'.sender)
               THEN "ACCESS_DENIED"
               ELSE IF last'.args[1] # DBUS_INTERFACE
               THEN NotImplemented(last'.args[1])
               ELSE NotSettable(last'.args[2])
          /\ last'.err # ""
          /\ UNCHANGED ProgramState]_vars

\* Set of an exported property of the main interface by a caller that
\* matches no whitelist entry was denied under lockdown.
C18_Witness ==
    /\ last.op = "Set"
    /\ last.args[1] = DBUS_INTERFACE
    /\ last.args[2] = "state"
    /\ lockdown
    /\ ~Whitelisted(last.sender)
    /\ last.err = "ACCESS_DENIED"

\* The names of the exported properties.
Exported ==
    {"version", "interface_version", "state", "IPv4", "IPv6", "IPv6_rpfilter",
     "BRIDGE"}

\* C19: Get and GetAll.  For an interface other than the main interface both
\* fail with UnknownInterface.  On the main interface, Get of a name outside
\* {version, interface_version, state, IPv4, IPv6, IPv6_rpfilter, BRIDGE}
\* fails with AccessDenied, Get of a name of the set returns its value, and
\* GetAll returns exactly those seven keys, each with the value Get returns
\* for it.
C19_GetAndGetAll ==
    /\ last.op = "Get"
       => IF last.args[1] # DBUS_INTERFACE
          THEN last.err = NotImplemented(last.args[1])
          ELSE IF last.args[2] \notin Exported
          THEN last.err = NotExported(last.args[2])
          ELSE /\ last.err = ""
               /\ last.ret = PropertyValue(Cur, last.args[2])
    /\ last.op = "GetAll"
       => IF last.args[1] # DBUS_INTERFACE
          THEN last.err = NotImplemented(last.args[1])
          ELSE /\ last.err = ""
               /\ {item[1] : item \in last.ret} = Exported
               /\ Cardinality(last.ret) = Cardinality(Exported)
               /\ \A item \in last.ret :
                     item[2] = Get(Cur, DBUS_INTERFACE, item[1],
                                   last.sender).ret

\* Get of a name that is not exported was refused on the main interface.
C19_Witness ==
    /\ last.op = "Get"
    /\ last.args = <<DBUS_INTERFACE, "panic">>
    /\ last.err = NotExported("panic")

(***************************************************************************)
(* Active zones.                                                           *)
(***************************************************************************)
\* The values a dict (a set of items) holds under a key.
ValuesAt(dict, key) == {item[2] : item \in {i \in dict : i[1] = key}}

\* C20: getActiveZones returns a mapping that contains a zone exactly when
\* the zone has at least one interface or at least one source; in the entry
\* of a zone the key 'interfaces' is present exactly when the interface list
\* is not empty and the key 'sources' exactly when the source list is not
\* empty, and the lists are those of listInterfaces and listSources of the
\* zone.
C20_ActiveZones ==
    (last.op = "getActiveZones" /\ Authorized(last))
    => /\ last.err = ""
       /\ {item[1] : item \in last.ret} \subseteq Zones
       /\ \A zone \in Zones :
            LET bound == [kind \in BindingKinds |->
                        {id \in Interfaces \cup SourceAddrs :
                           Entry(zone, kind, <<id>>) \in settings}]
                entries == ValuesAt(last.ret, zone) IN
            IF bound["interface"] = {} /\ bound["source"] = {}
            THEN entries = {}
            ELSE /\ Cardinality(entries) = 1
                 /\ \A entry \in entries :
                      /\ {item[1] : item \in entry}
                         = {"interfaces" : x \in bound["interface"]}
                           \cup {"sources" : x \in bound["source"]}
                      /\ ValuesAt(entry, "interfaces")
                         \subseteq {bound["interface"]}
                      /\ ValuesAt(entry, "sources") \subseteq {bound["source"]}

\* A zone with an interface and no source was listed with the key
\* 'interfaces' alone, and the other zone was not listed.
C20_Witness ==
    /\ last.op = "getActiveZones"
    /\ last.ret = {<<"work", {<<"interfaces", {"eth0"}>>}>>}

(***************************************************************************)
(* The scheduler: one pending timer per key.                               *)
(***************************************************************************)
\* The key of the timer table under which the add that armed this source
\* recorded it.
TimerKey(src) ==
    CASE src.cb \in {"disableTimedPort", "disable_forward_port"} ->
            PyTuple(Tail(src.args))
      [] src.cb = "disableTimedMasquerade" -> PyStr(<<"masquerade">>)
      [] src.cb = "disableTimedRichRule" -> PyStr(Tail(src.args))
      [] OTHER -> PyStr(<<src.args[2]>>)

\* The timers that are pending for a key (zone, key) of the timer table.
Pending(zone, key) ==
    {src \in sources : src.args[1] = zone /\ TimerKey(src) = key}

\* C21: arming a timer for a key (zone, entryKey) that already has an armed
\* timer cancels the existing timer before the new one is recorded, so at
\* most one timer is pending per key and every pending timer is the one the
\* timer table holds for its key.
C21_OneTimerPerKey ==
    \A src \in sources :
        /\ Pending(src.args[1], TimerKey(src)) = {src}
        /\ \E t \in timeouts :
              /\ t.zone = src.args[1]
              /\ t.key = TimerKey(src)
              /\ t.tag = src.tag

\* The entry a dispatched timer callback was armed for.
FiredFor(call) ==
    Entry(call.zone, call.feature, EntryId(call.feature, call.args))

\* C22: at-most-once fire.  A timer callback runs only for a timed add whose
\* term is still open (no manual remove of the entry and no reload followed
\* the add) and whose timeout has elapsed, and the timer that ran is gone: a
\* timer that a remove or a reload was to cancel never runs, and none runs
\* twice.
C22_AtMostOnceFire ==
    [][last'.class = "fire"
         => /\ \E p \in promises :
                  p.entry = FiredFor(last') /\ p.remaining = 0
            /\ Cardinality(sources') < Cardinality(sources)]_vars

(***************************************************************************)
(* Failed and successful timed operations.                                 *)
(***************************************************************************)
ElementCall(call) ==
    call.class \in {"add", "remove"} /\ call.feature \in ElementKinds

\* C23: a failed add... (ALREADY_ENABLED, INVALID_ZONE, ...) arms no timer,
\* leaves the timer table and the zone settings as they were and emits no
\* ...Added signal, even when its timeout is positive; a failed remove...
\* (NOT_ENABLED, ...) leaves every armed timer armed and emits no ...Removed
\* signal.
C23_FailureLeavesTimers ==
    [][(ElementCall(last') /\ last'.err # "")
         => /\ UNCHANGED <<timeouts, sources, nextTag, settings>>
            /\ last'.signals = <<>>]_vars

\* A timed add of an entry that is enabled and has its timer armed was
\* refused.
C23_Witness ==
    /\ last.class = "add"
    /\ last.err = "ALREADY_ENABLED"
    /\ last.timeout > 0
    /\ \E src \in sources :
          src.args[1] = check_zone(Cur, last.zone)
          /\ TimerKey(src) \in
               KeysOf(Entry(src.args[1], last.feature,
                            EntryId(last.feature, last.args)))

\* The signal a timer callback emits.
ExpirySignalOf ==
    [disableTimedService |-> "ServiceRemoved",
     disableTimedPort |-> "PortRemoved",
     disableTimedProtocol |-> "ProtocolRemoved",
     disableTimedMasquerade |-> "MasqueradeRemoved",
     disable_forward_port |-> "ForwardPortRemoved",
     disableTimedIcmpBlock |-> "IcmpBlockRemoved",
     disableTimedRichRule |-> "RichRuleRemoved"]

InTable(table, zone, key) == \E t \in table : t.zone = zone /\ t.key = key

\* C24: the steps of one operation are ordered.  An add... emits its signal
\* only after the entry is enabled and, for a positive timeout, its timer is
\* armed and recorded; a manual remove... emits its signal only after the
\* entry is disabled and the timer under its key cancelled; an expiry
\* deletes the entry of the timer table before it asks the core to disable
\* the entry (a failure of the core finds it deleted) and emits its signal
\* only after the core disabled the entry.  The signals of a step are those
\* of the operation the step runs, so signals follow the order of the
\* operations.
C24_StepOrder ==
    [][/\ (ElementCall(last') /\ last'.signals # <<>>)
          => /\ \A i \in DOMAIN last'.signals :
                   last'.signals[i].name = SignalOf[last'.op]
             /\ LET e == Entry(last'.ret, last'.feature,
                               EntryId(last'.feature, last'.args))
                    key == RawKey(last'.feature, last'.args) IN
                IF last'.class = "add"
                THEN /\ e \in settings'
                     /\ last'.timeout > 0
                        => \E src \in sources' \ sources :
                              \E t \in timeouts' \ timeouts :
                                 /\ t.tag = src.tag
                                 /\ t.zone = last'.ret
                                 /\ t.key = key
                     /\ last'.timeout <= 0
                        => sources' = sources /\ timeouts' = timeouts
                ELSE /\ e \notin settings'
                     /\ ~InTable(timeouts', last'.ret, key)
       /\ last'.class = "fire"
          => LET key == RawKey(last'.feature, last'.args) IN
             /\ \A i \in DOMAIN last'.signals :
                   last'.signals[i].name = ExpirySignalOf[last'.op]
             /\ last'.signals # <<>>
                => FiredFor(last') \in settings \ settings'
             /\ last'.err # "KeyError"
                => InTable(timeouts, last'.zone, key)
                   /\ ~InTable(timeouts', last'.zone, key)
             /\ last'.err = "KeyError" => settings' = settings]_vars

\* The timer of a service ran after a reload had dropped the service: the
\* core refused, and the entry of the timer table was gone by then.
C24_Witness ==
    /\ last.op = "disableTimedService"
    /\ last.err = "NOT_ENABLED"
    /\ ~InTable(timeouts, last.zone, RawKey(last.feature, last.args))

\* What a successful add of a zone element did to the timers in its step.
Armed == sources' # sources
Tabled == timeouts' # timeouts

\* C25: a timer is armed if and only if the add succeeds with a positive
\* timeout.  A successful add... with timeout 0 or a negative timeout arms no
\* timer and adds nothing to the timer table, and the ...Added signal
\* carries the timeout as given; an entry that was last added that way is
\* removed by no timer (it stays enabled until a manual remove or a reload).
C25_TimerIffPositive ==
    [][/\ (ElementCall(last') /\ last'.class = "add")
          => /\ Armed <=> (last'.err = "" /\ last'.timeout > 0)
             /\ Tabled <=> (last'.err = "" /\ last'.timeout > 0)
             /\ last'.err = ""
                => \A i \in DOMAIN last'.signals :
                      last'.signals[i].args[Len(last'.signals[i].args)]
                      = last'.timeout
       /\ (last'.class = "fire" /\ FiredFor(last') \in settings \ settings')
          => \E p \in promises : p.entry = FiredFor(last')]_vars

(***************************************************************************)
(* Lockdown and the operations without a zone.                             *)
(***************************************************************************)
\* C26: lockdown gates the direct mutators.  With lockdown enabled, every
\* mutating operation of the direct interface (addChain, removeChain,
\* addRule, removeRule, removeRules, addPassthrough, removePassthrough,
\* removeAllPassthroughs) invoked by a caller that holds its polkit action
\* and whose identity matches no whitelist entry fails with ACCESS_DENIED
\* and leaves chains, rules and passthroughs as they were.
C26_LockdownGatesDirect ==
    [][(/\ last'.op \in DirectMutators
        /\ lockdown
        /\ Authorized(last')
        /\ ~Whitelisted(last'.sender))
         => /\ last'.err = "ACCESS_DENIED"
            /\ UNCHANGED <<chains, rules, passthroughs>>]_vars

MainMutators == {"reload", "completeReload", "runtimeToPermanent"}

\* C27: lockdown gates the main operations without a zone argument.  With
\* lockdown enabled, reload, completeReload and runtimeToPermanent invoked by
\* a caller that holds the polkit action and whose identity matches no
\* whitelist entry fail with ACCESS_DENIED before any change to the runtime
\* state or to the persistent store.
C27_LockdownGatesMain ==
    [][(/\ last'.op \in MainMutators
        /\ lockdown
        /\ Authorized(last')
        /\ ~Whitelisted(last'.sender))
         => /\ last'.err = "ACCESS_DENIED"
            /\ UNCHANGED ProgramState]_vars

(***************************************************************************)
(* runtimeToPermanent: what is written.                                    *)
(***************************************************************************)
\* The calls a sequence of store calls made for one entity.
CallsFor(ops, entity) ==
    {ops[i][3] : i \in {j \in DOMAIN ops : <<ops[j][1], ops[j][2]>> = entity}}

\* The calls that writing only as needed makes for an entity, given the
\* runtime and the store before the call.
Needed(entity) ==
    CASE entity[1] = "direct" ->
            {"getSettings"}
            \cup (IF store.direct # <<chains, rules, passthroughs>>
                  THEN {"update"} ELSE {})
      [] entity[1] = "policies" ->
            {"getSettings"}
            \cup (IF store.whitelist
                     # <<whitelist.command, whitelist.context,
                         whitelist.user, whitelist.uid>>
                  THEN {"setLockdownWhitelist"} ELSE {})
      [] OTHER ->
            {"getByName"}
            \cup (IF ~InStore(Cur, entity[1], entity[2]) THEN {"add"}
                  ELSE IF StoredSettings(Cur, entity[1], entity[2])
                          # RuntimeConfig(Cur, entity[1], entity[2])
                  THEN {"update"} ELSE {})

\* C28: runtimeToPermanent writes to the store only as needed.  A service,
\* icmp type or zone absent from the store is created, one present with
\* different settings is updated, one present with identical settings is
\* not written; the direct configuration is written exactly when it differs
\* from the persistent one, and the lockdown whitelist exactly when the
\* runtime whitelist differs from the persistent whitelist.
C28_WritesAsNeeded ==
    [][(last'.op = "runtimeToPermanent" /\ last'.err = "")
         => \A i \in DOMAIN Walk :
               CallsFor(storeOps', Walk[i]) = Needed(Walk[i])]_vars

(***************************************************************************)
(* Reload.                                                                 *)
(***************************************************************************)
\* C29: reload() and completeReload() each emit the Reloaded signal exactly
\* once, after both the reload of the runtime and the reload of the
\* configuration have completed; when either of the two steps fails, no
\* Reloaded signal is emitted.
C29_ReloadedOnce ==
    (last.class = "reload" /\ Authorized(last))
    => IF last.args = NoFault
       THEN last.err = "" /\ last.signals = <<Signal("Reloaded", <<>>)>>
       ELSE last.err # "" /\ last.signals = <<>>

\* The reload of the configuration failed after the runtime had been
\* reloaded from a store that holds a binding.
C29_Witness ==
    /\ last.op = "reload"
    /\ last.args = <<"config", "">>
    /\ last.err = StoreError
    /\ last.signals = <<>>
    /\ settings = permanent
    /\ permanent # {}

(***************************************************************************)
(* Direct rules.                                                           *)
(***************************************************************************)
\* The rules a list of rules holds outside one chain.
Elsewhere(list, c) ==
    SelectSeq(list, LAMBDA r : <<r[1], r[2], r[3]>> # <<c[1], c[2], c[3]>>)

\* C30: removeRules(ipv, table, chain) removes every direct rule that
\* getRules(ipv, table, chain) lists at the time of the call and emits
\* exactly one RuleRemoved(ipv, table, chain, priority, args) per removed
\* rule; when it succeeds getRules(ipv, table, chain) is empty and the rules
\* of other chains are as they were.
C30_RemoveRules ==
    [][(last'.op = "removeRules" /\ last'.err = "")
         => LET c == last'.args
                listed == get_rules(Cur, c[1], c[2], c[3]) IN
            /\ last'.signals =
                  [i \in 1 .. Len(listed) |->
                      Signal("RuleRemoved",
                             <<c[1], c[2], c[3], listed[i][1], listed[i][2]>>)]
            /\ get_rules([rules |-> rules'], c[1], c[2], c[3]) = <<>>
            /\ Elsewhere(rules', c) = Elsewhere(rules, c)]_vars

\* Two rules of a chain were removed by one call and the rule of another
\* chain is still there.
C30_Witness ==
    /\ last.op = "removeRules"
    /\ last.err = ""
    /\ Len(last.signals) = 2
    /\ rules # <<>>

(***************************************************************************)
(* The timer table and the pending timers.                                 *)
(***************************************************************************)
\* C31: timer-table consistency.  In every reachable state every pending
\* expiry timer is recorded in the timer table under its own zone and entry
\* key with its own tag, and every tag the table records is the tag of a
\* pending timer.
C31_TableConsistent ==
    /\ \A src \in sources :
          [zone |-> src.args[1], key |-> TimerKey(src), tag |-> src.tag]
          \in timeouts
    /\ \A t \in timeouts : \E src \in sources : src.tag = t.tag

\* The callback that expires an entry of each kind.
CallbackOf ==
    [service |-> "disableTimedService", port |-> "disableTimedPort",
     protocol |-> "disableTimedProtocol",
     masquerade |-> "disableTimedMasquerade",
     forwardport |-> "disable_forward_port",
     icmpblock |-> "disableTimedIcmpBlock",
     richrule |-> "disableTimedRichRule"]

\* The timers of one element kind: the tags of its pending sources, and the
\* entries of the timer table that record them.
TagsOf(pending, kind) ==
    {src.tag : src \in {x \in pending : x.cb = CallbackOf[kind]}}
RecordedOf(pending, table, kind) ==
    {t \in table : t.tag \in TagsOf(pending, kind)}

\* C32: timers of different element kinds in one zone never interfere.  An
\* add, a remove or an expiry of an entry of one kind leaves the timers of
\* every other kind pending and recorded in the timer table as they were,
\* also when the identifiers are the same string (service "gre" and
\* protocol "gre").
C32_KindsDoNotInterfere ==
    [][last'.class \in {"add", "remove", "fire"}
         => \A kind \in ElementKinds \ {last'.feature} :
               /\ TagsOf(sources', kind) = TagsOf(sources, kind)
               /\ RecordedOf(sources', timeouts', kind)
                  = RecordedOf(sources, timeouts, kind)]_vars

(***************************************************************************)
(* Manual remove against expiry.                                           *)
(***************************************************************************)
\* The entry a call of a zone element mutator names.
Named(call) ==
    Entry(check_zone(Cur, call.zone), call.feature,
          EntryId(call.feature, call.args))

\* C33: manual remove against expiry of an entry added with a timeout, in
\* both orders on the one dispatch loop.  Remove first: the remove disables
\* the entry, emits the one ...Removed signal, leaves no entry for it in the
\* timer table and no timer pending for it, so the late expiry never runs.
\* Expiry first: the expiry disables the entry, emits the one ...Removed
\* signal and leaves no entry for it in the timer table; the late remove
\* (of an entry that is not enabled) fails with NOT_ENABLED and changes no
\* state.
C33_RemoveAgainstExpiry ==
    [][/\ (/\ last'.class = "remove"
           /\ last'.feature \in ElementKinds
           /\ last'.err = ""
           /\ \E p \in promises : p.entry = Named(last'))
          => /\ Named(last') \notin settings'
             /\ Len(last'.signals) = 1
             /\ \A t \in timeouts' :
                   ~(t.zone = Named(last').zone
                     /\ t.key \in KeysOf(Named(last')))
             /\ \A src \in sources' :
                   ~(/\ src.cb = CallbackOf[last'.feature]
                     /\ Entry(src.args[1], last'.feature,
                              IF last'.feature = "icmpblock"
                              THEN <<src.args[2]>>
                              ELSE EntryId(last'.feature, Tail(src.args)))
                        = Named(last'))
       /\ (/\ last'.class = "fire"
           /\ \E p \in promises : p.entry = FiredFor(last') /\ p.remaining = 0)
          => /\ FiredFor(last') \notin settings'
             /\ Len(last'.signals) = 1
             /\ \A t \in timeouts' :
                   ~(t.zone = last'.zone /\ t.key \in KeysOf(FiredFor(last')))
       /\ (/\ last'.class = "remove"
           /\ last'.feature \in ElementKinds
           /\ Authorized(last')
           /\ last'.err # "ACCESS_DENIED"
           /\ Named(last').zone \in Zones
           /\ Named(last') \notin settings)
          => last'.err = "NOT_ENABLED" /\ UNCHANGED ProgramState]_vars

\* The timers armed to remove this rich rule of a zone, under any text.
RuleTimers(pending, zone, obj) ==
    {src \in pending : /\ src.cb = "disableTimedRichRule"
                       /\ src.args[1] = zone
                       /\ Rich_Rule(Tail(src.args)) = obj}

\* C34: a successful removeRichRule of a rule that was added with a timeout
\* leaves no timer armed for that rule, whatever text of the rule either
\* call was given; so an expiry removes a rich rule only when the term of
\* the timed add that enabled it has run out, never on behalf of an add
\* that a remove has already undone.
C34_RichRuleRemoveDisarms ==
    [][/\ (/\ last'.op = "removeRichRule"
           /\ last'.err = ""
           /\ \E p \in promises : p.entry = Named(last'))
          => RuleTimers(sources', last'.ret, Rich_Rule(last'.args)) = {}
       /\ (/\ last'.op = "disableTimedRichRule"
           /\ last'.err = "")
          => \E p \in promises : /\ p.entry = FiredFor(last')
                                 /\ p.remaining = 0]_vars

(***************************************************************************)
(* Expiry and the default zone.                                            *)
(***************************************************************************)
\* C35: an expiry acts on the zone resolved when the timer was armed.  A
\* timed add to the default zone arms its timer, and records it in the timer
\* table, under the name of the zone that is the default at that time;
\* setDefaultZone leaves the timers, the timer table and the zone settings
\* alone; an expiry that succeeds removes its entry from the zone its timer
\* was armed with and from no other, and names that zone in its signal, also
\* when the default zone is another by then; and a manual remove from that
\* zone by name cancels the timer recorded for the key there.
C35_ExpiryInArmedZone ==
    [][/\ (/\ last'.class = "add"
           /\ last'.feature \in ElementKinds
           /\ last'.zone = ""
           /\ last'.timeout > 0
           /\ last'.err = "")
          => /\ last'.ret = defaultZone
             /\ \E src \in sources' \ sources :
                   /\ src.cb = CallbackOf[last'.feature]
                   /\ src.args[1] = defaultZone
                   /\ [zone |-> defaultZone, key |-> TimerKey(src),
                       tag |-> src.tag] \in timeouts'
       /\ (last'.op = "setDefaultZone")
          => /\ sources' = sources
             /\ timeouts' = timeouts
             /\ settings' = settings
       /\ (last'.class = "fire" /\ last'.err = "")
          => /\ \E src \in sources \ sources' :
                   /\ src.cb = last'.op
                   /\ src.remaining = 0
                   /\ src.args[1] = last'.zone
             /\ FiredFor(last') \in settings
             /\ settings' = settings \ {FiredFor(last')}
             /\ Len(last'.signals) = 1
             /\ last'.signals[1].name = ExpirySignalOf[last'.op]
             /\ last'.signals[1].args[1] = last'.zone
       /\ (/\ last'.class = "remove"
           /\ last'.feature \in ElementKinds
           /\ last'.zone \in Zones
           /\ last'.err = "")
          => \A t \in timeouts :
                (/\ t.zone = last'.zone
                 /\ t.key = RawKey(last'.feature, last'.args))
                => /\ t \notin timeouts'
                   /\ \A src \in sources' : src.tag # t.tag]_vars

\* An expiry has removed an entry from the zone that was the default when
\* the daemon started, after another zone became the default.
C35_Witness ==
    /\ last.class = "fire"
    /\ last.err = ""
    /\ last.zone = "public"
    /\ defaultZone = "work"
    /\ FiredFor(last) \notin settings

(***************************************************************************)
(* Lockdown and its own administration.                                    *)
(***************************************************************************)
NoWhitelist == [context |-> {}, uid |-> {}, user |-> {}, command |-> {}]

\* C36: lockdown gates its own administration.  With lockdown enabled,
\* enableLockdown, disableLockdown and every whitelist add and remove, called
\* by an identified caller that holds the polkit action and matches no
\* whitelist entry, fail with ACCESS_DENIED and change nothing; hence with
\* lockdown enabled and an empty whitelist no call of the policies interface
\* by an identified caller disables lockdown or adds a whitelist entry.
C36_LockdownGatesItself ==
    [][/\ (/\ last'.op \in PolicyMutators
           /\ last'.sender \in Senders
           /\ lockdown
           /\ Authorized(last')
           /\ ~Whitelisted(last'.sender))
          => /\ last'.err = "ACCESS_DENIED"
             /\ UNCHANGED ProgramState
       /\ (/\ last'.feature = "policies"
           /\ last'.sender \in Senders
           /\ lockdown
           /\ whitelist = NoWhitelist)
          => /\ lockdown'
             /\ whitelist' = NoWhitelist]_vars

\* With lockdown enabled and the whitelist emptied, the caller that was on
\* the whitelist was denied disableLockdown.
C36_Witness ==
    /\ lockdown
    /\ whitelist = NoWhitelist
    /\ last.op = "disableLockdown"
    /\ last.sender = ":1.1"
    /\ last.err = "ACCESS_DENIED"

(***************************************************************************)
(* The lockdown check without a caller identity.                           *)
(***************************************************************************)
\* Two outcomes that differ at most in the lockdown checks they record.
SameOutcome(a, b) ==
    /\ a.s = b.s
    /\ a.ret = b.ret
    /\ a.err = b.err
    /\ a.signals = b.signals

\* C37: with lockdown enabled, a lockdown check made without a sender does
\* not deny, and the operation proceeds as it does for a caller on the
\* whitelist.  removeAllPassthroughs makes one removePassthrough call per
\* tracked passthrough, each without a sender; none is denied, whoever the
\* caller of removeAllPassthroughs is, and every passthrough is removed.
C37_NoSenderNotDenied ==
    [][/\ lockdown
          => /\ accessCheck(Cur, NoSender).ok
             /\ \A pt \in PassthroughArgs, w \in Senders :
                   Whitelisted(w)
                   => SameOutcome(removePassthrough(Cur, pt[1], pt[2], NoSender),
                                  removePassthrough(Cur, pt[1], pt[2], w))
       /\ (lockdown /\ last'.op = "removeAllPassthroughs" /\ Authorized(last'))
          => /\ Len(last'.checks) = Len(passthroughs)
             /\ \A i \in DOMAIN last'.checks :
                   /\ last'.checks[i].sender = NoSender
                   /\ last'.checks[i].ok
             /\ last'.err = ""
             /\ Len(last'.signals) = Len(passthroughs)
             /\ passthroughs' = <<>>]_vars

\* Under lockdown a caller that matches no whitelist entry called
\* removeAllPassthroughs, and both tracked passthroughs were removed by calls
\* made without a sender.
C37_Witness ==
    /\ lockdown
    /\ last.op = "removeAllPassthroughs"
    /\ last.sender \in Senders
    /\ ~Whitelisted(last.sender)
    /\ Len(last.checks) = 2
    /\ \A i \in DOMAIN last.checks : last.checks[i].sender = NoSender
    /\ passthroughs = <<>>

(***************************************************************************)
(* runtimeToPermanent and timed entries.                                   *)
(***************************************************************************)
\* C38: runtimeToPermanent leaves the runtime model and the timer table as
\* they are; when it succeeds the store holds, for each zone, the settings
\* the zone has at the time of the call, the entries that a timer is still
\* armed to remove included; and no add, remove or expiry changes the store,
\* so such an entry stays in the store when it expires from the runtime.
C38_TimedEntriesPersisted ==
    [][/\ (last'.op = "runtimeToPermanent" /\ Authorized(last'))
          => /\ UNCHANGED <<defaultZone, settings, timeouts, sources, nextTag,
                            lockdown, whitelist, panic, passthroughs, chains,
                            rules>>
             /\ last'.err = ""
                => \A zone \in Zones :
                      {e \in permanent' : e.zone = zone}
                      = {e \in settings : e.zone = zone}
       /\ (last'.op # "runtimeToPermanent")
          => permanent' = permanent]_vars

\* A protocol was enabled once with a timeout, made permanent, and has
\* expired: the zone no longer has it, the store does.
C38_Witness ==
    /\ last.class = "fire"
    /\ last.err = ""
    /\ nextTag = 2
    /\ FiredFor(last) \in permanent
    /\ FiredFor(last) \notin settings

====
